---------------------------- MODULE Spec2Model ----------------------------
(***************************************************************************)
(* Model of the cluster/node resource model of                             *)
(* cubi-tools/prototypes/cluster-info.py: the memory unit normalizer, the  *)
(* node state classifier, the resource parser, node construction with its  *)
(* load estimate, the free query and the size comparator of ClusterNode,   *)
(* and the summary and listing operations of PBSCluster.                   *)
(*                                                                         *)
(* Text (Python str) is a sequence of one-character strings, so that       *)
(* split/strip/lower/regex searches are computed, not assumed.             *)
(***************************************************************************)
EXTENDS Integers, Sequences, FiniteSets, TLC

VARIABLES
    pc,           \* position of the run: which call is pending / has returned
    arg,          \* argument of the pending call of a single function
    ret,          \* value (or exception) returned by that call
    inventory,    \* node_infos["nodes"]: sequence of raw node records
    correct_smt,  \* the hyperthread-correction flag of the run
    node_list,    \* PBSCluster.node_list: sequence of constructed nodes
    stderr,       \* number of diagnostics written to sys.stderr
    op            \* the last cluster/node operation and its outcome

vars == <<pc, arg, ret, inventory, correct_smt, node_list, stderr, op>>

NoValue == [kind |-> "none"]

----------------------------------------------------------------------------
(* Text helpers: Python str operations on sequences of characters.         *)

Digits == <<"0", "1", "2", "3", "4", "5", "6", "7", "8", "9">>
Uppers == <<"A", "B", "C", "D", "E", "F", "G", "H", "I", "J", "K", "L", "M",
            "N", "O", "P", "Q", "R", "S", "T", "U", "V", "W", "X", "Y", "Z">>
Lowers == <<"a", "b", "c", "d", "e", "f", "g", "h", "i", "j", "k", "l", "m",
            "n", "o", "p", "q", "r", "s", "t", "u", "v", "w", "x", "y", "z">>

\* The characters of the model in code point order (str comparison).
CodePoints == <<" ", ",", "-">> \o Digits \o <<"<", ">">> \o Uppers \o <<"_">> \o Lowers

Range(s) == {s[i] : i \in 1..Len(s)}

IndexOf(c, s) == CHOOSE i \in 1..Len(s) : s[i] = c

ord(c) == IndexOf(c, CodePoints)

\* str.lower(), one character
chr_lower(c) == IF c \in Range(Uppers) THEN Lowers[IndexOf(c, Uppers)] ELSE c

\* str.upper(), one character
chr_upper(c) == IF c \in Range(Lowers) THEN Uppers[IndexOf(c, Lowers)] ELSE c

str_lower(s) == [i \in 1..Len(s) |-> chr_lower(s[i])]

str_upper(s) == [i \in 1..Len(s) |-> chr_upper(s[i])]

\* str.strip(chars): drop leading and trailing characters that are in chars
RECURSIVE str_lstrip(_, _)
str_lstrip(s, chars) ==
    IF s # <<>> /\ Head(s) \in chars THEN str_lstrip(Tail(s), chars) ELSE s

RECURSIVE str_rstrip(_, _)
str_rstrip(s, chars) ==
    IF s # <<>> /\ s[Len(s)] \in chars
    THEN str_rstrip(SubSeq(s, 1, Len(s) - 1), chars)
    ELSE s

str_strip(s, chars) == str_rstrip(str_lstrip(s, chars), chars)

Whitespace == {" "}

\* str.replace(c, ""): remove every occurrence of the character c
str_remove(s, c) == SelectSeq(s, LAMBDA x : x # c)

\* str.split(sep) for a one-character separator: always at least one field
RECURSIVE str_split(_, _)
str_split(s, sep) ==
    IF \A i \in 1..Len(s) : s[i] # sep
    THEN <<s>>
    ELSE LET i == CHOOSE k \in 1..Len(s) :
                      s[k] = sep /\ \A j \in 1..(k - 1) : s[j] # sep
         IN  <<SubSeq(s, 1, i - 1)>> \o str_split(SubSeq(s, i + 1, Len(s)), sep)

\* sep.join(parts)
RECURSIVE str_join(_, _)
str_join(parts, sep) ==
    IF parts = <<>> THEN <<>>
    ELSE IF Len(parts) = 1 THEN parts[1]
    ELSE parts[1] \o <<sep>> \o str_join(Tail(parts), sep)

\* re.search("[class]+", s).group(0): the first maximal run of characters of
\* the class; <<>> stands for None (a match is never empty).
re_search_run(s, class) ==
    IF \A i \in 1..Len(s) : s[i] \notin class
    THEN <<>>
    ELSE LET b == CHOOSE k \in 1..Len(s) :
                      s[k] \in class /\ \A j \in 1..(k - 1) : s[j] \notin class
             e == CHOOSE k \in b..Len(s) :
                      /\ \A j \in b..k : s[j] \in class
                      /\ (k = Len(s) \/ s[k + 1] \notin class)
         IN  SubSeq(s, b, e)

\* int(text) for a text of decimal digits
RECURSIVE str_to_int(_)
str_to_int(s) ==
    IF s = <<>> THEN 0
    ELSE 10 * str_to_int(SubSeq(s, 1, Len(s) - 1)) + (IndexOf(s[Len(s)], Digits) - 1)

\* str(n) for a non-negative integer
RECURSIVE int_to_str(_)
int_to_str(n) ==
    IF n < 10 THEN <<Digits[n + 1]>>
    ELSE int_to_str(n \div 10) \o <<Digits[(n % 10) + 1]>>

\* str comparison a < b: lexicographic by code point
RECURSIVE str_less(_, _)
str_less(a, b) ==
    IF b = <<>> THEN FALSE
    ELSE IF a = <<>> THEN TRUE
    ELSE IF a[1] # b[1] THEN ord(a[1]) < ord(b[1])
    ELSE str_less(Tail(a), Tail(b))

\* a variant of round(n / d) that drops the fraction, as int(n / d) would
round_truncating(n, d) == n \div d

\* round(n / d) of Python 3 for n >= 0, d > 0: ties go to the even integer
round_half_even(n, d) ==
    LET q == n \div d
        r == n % d
    IN  IF 2 * r < d THEN q
        ELSE IF 2 * r > d THEN q + 1
        ELSE IF q % 2 = 0 THEN q ELSE q + 1

RECURSIVE Pow(_, _)
Pow(b, e) == IF e = 0 THEN 1 ELSE b * Pow(b, e - 1)

----------------------------------------------------------------------------
(* MemoryUnit and ClusterNode._norm_mem_to_gibi                            *)

\* enum MemoryUnit: member name -> power of 1024 below GiB
MemoryUnit ==
    { <<<<"b", "y", "t", "e">>, 3>>,
      <<<<"b">>, 3>>,
      <<<<"k", "i", "l", "o", "b", "y", "t", "e">>, 2>>,
      <<<<"k", "i", "l", "o">>, 2>>,
      <<<<"k", "i", "b", "i">>, 2>>,
      <<<<"k", "i", "b">>, 2>>,
      <<<<"k", "b">>, 2>>,
      <<<<"k">>, 2>>,
      <<<<"m", "e", "g", "a", "b", "y", "t", "e">>, 1>>,
      <<<<"m", "e", "g", "a">>, 1>>,
      <<<<"m", "e", "b", "i">>, 1>>,
      <<<<"m", "b">>, 1>>,
      <<<<"m">>, 1>>,
      <<<<"g", "i", "g", "a", "b", "y", "t", "e">>, 0>>,
      <<<<"g", "i", "g", "a">>, 0>>,
      <<<<"g", "i", "b", "i">>, 0>>,
      <<<<"g", "i", "b">>, 0>>,
      <<<<"g", "b">>, 0>>,
      <<<<"g">>, 0>> }

MemoryUnitNames == {m[1] : m \in MemoryUnit}

\* MemoryUnit[name].value
MemoryUnitValue(name) == (CHOOSE m \in MemoryUnit : m[1] = name)[2]

\* The result of a call: raised names the exception ("none" when it returns).
\* A blunt result is in GiB (scale 1), a precise one in 1/100 GiB (scale 100).
norm_mem_to_gibi(memory, blunt) ==
    LET mem_value == re_search_run(memory, Range(Digits))
        mem_unit  == re_search_run(str_lower(memory), {"m", "k", "g", "b"})
    IN  IF mem_value = <<>>
        THEN [raised |-> "ValueError", value |-> 0, scale |-> 1]
        ELSE IF mem_unit # <<>> /\ mem_unit \notin MemoryUnitNames
        THEN [raised |-> "KeyError", value |-> 0, scale |-> 1]
        ELSE LET power == IF mem_unit = <<>>
                          THEN MemoryUnitValue(<<"b", "y", "t", "e">>)
                          ELSE MemoryUnitValue(mem_unit)
                 v     == str_to_int(mem_value)
             IN  IF blunt
                 THEN [raised |-> "none",
                       value  |-> round_half_even(v, Pow(1024, power)),
                       scale  |-> 1]
                 ELSE [raised |-> "none",
                       value  |-> round_half_even(100 * v, Pow(1024, power)),
                       scale  |-> 100]

----------------------------------------------------------------------------
(* NodeState and ClusterNode._parse_state                                  *)

\* enum NodeState: member name -> value.  Names with the value of an earlier
\* member are aliases of it, so a lookup by name yields the member of that
\* value: offline (1), invalid (2) or online (0).
NodeState ==
    { <<<<"o", "f", "f", "l", "i", "n", "e">>, 1>>,
      <<<<"u", "n", "k", "n", "o", "w", "n">>, 1>>,
      <<<<"d", "o", "w", "n">>, 1>>,
      <<<<"s", "t", "a", "t", "e", "u", "n", "k", "n", "o", "w", "n">>, 1>>,
      <<<<"i", "n", "v", "a", "l", "i", "d">>, 2>>,
      <<<<"o", "n", "l", "i", "n", "e">>, 0>>,
      <<<<"f", "r", "e", "e">>, 0>>,
      <<<<"j", "o", "b", "b", "u", "s", "y">>, 0>>,
      <<<<"v", "a", "r", "i", "o", "u", "s">>, 0>> }

NodeStateNames == {m[1] : m \in NodeState}

\* NodeState[name]: the member, as [name, value] with the canonical name
NodeStateMember(name) ==
    LET v == (CHOOSE m \in NodeState : m[1] = name)[2]
    IN  [name  |-> IF v = 1 THEN "offline" ELSE IF v = 2 THEN "invalid" ELSE "online",
         value |-> v]

NodeState_online  == NodeStateMember(<<"o", "n", "l", "i", "n", "e">>)
NodeState_offline == NodeStateMember(<<"o", "f", "f", "l", "i", "n", "e">>)
NodeState_invalid == NodeStateMember(<<"i", "n", "v", "a", "l", "i", "d">>)

\* `node_state == "<various>"`: an enum member compared with a str; Enum
\* defines no equality with str, so the comparison is False for every member.
enum_eq_str(member, text) == FALSE

\* Returns [raised, state, warned]: warned counts the writes to sys.stderr.
parse_state(state_expr) ==
    LET parts      == str_split(state_expr, ",")
        all_states == [i \in 1..Len(parts) |-> str_remove(parts[i], "-")]
        names      == [i \in 1..Len(all_states) |->
                          str_strip(str_strip(all_states[i], Whitespace), {"<", ">"})]
    IN  IF \E i \in 1..Len(names) : names[i] \notin NodeStateNames
        THEN [raised |-> "KeyError", state |-> NodeState_invalid, warned |-> 0]
        ELSE LET node_state == {NodeStateMember(names[i]) : i \in 1..Len(names)}
             IN  IF Cardinality(node_state) # 1
                 THEN [raised |-> "none", state |-> NodeState_invalid, warned |-> 1]
                 ELSE LET popped == CHOOSE m \in node_state : TRUE
                      IN  IF enum_eq_str(popped, <<"<", "v", "a", "r", "i", "o", "u", "s", ">">>)
                          THEN [raised |-> "none",
                                state  |-> NodeStateMember(<<"v", "a", "r", "i", "o", "u", "s">>),
                                warned |-> 1]
                          ELSE [raised |-> "none", state |-> popped, warned |-> 0]

----------------------------------------------------------------------------
(* Raw values and ClusterNode._parse_resource_info                         *)

\* A raw JSON value: an integer, a text, or a value of another type.
IntVal(n) == [t |-> "int", v |-> n]
StrVal(s) == [t |-> "str", s |-> s]
OtherVal  == [t |-> "other"]

text_none  == <<"n", "o", "n", "e">>
text_igpu  == <<"i", "g", "p", "u">>
text_linux == <<"l", "i", "n", "u", "x">>
text_unknown == <<"u", "n", "k", "n", "o", "w", "n">>

\* rsrc_value.strip().lower(), or the value itself when it is an int
norm_value(rsrc_value) ==
    IF rsrc_value.t = "str"
    THEN StrVal(str_lower(str_strip(rsrc_value.s, Whitespace)))
    ELSE rsrc_value

\* int(norm_value): [raised, v]
to_int(nv) ==
    IF nv.t = "int" THEN [raised |-> "none", v |-> nv.v]
    ELSE IF nv.s # <<>> /\ \A i \in 1..Len(nv.s) : nv.s[i] \in Range(Digits)
    THEN [raised |-> "none", v |-> str_to_int(nv.s)]
    ELSE [raised |-> "ValueError", v |-> 0]

\* The state of one call while it walks resource_info.items(): the exception
\* raised so far, the (key, value) tuples appended to machine_resources and
\* the attributes of self that the call assigns.
ParseAcc(self) ==
    [raised |-> "none", items |-> <<>>, type |-> self.type,
     workloads |-> self.workloads, queue_list |-> self.queue_list]

\* One iteration of the loop over resource_info.items()
parse_resource_item(id, acc, rsrc_key, rsrc_value, smt) ==
    LET nv == norm_value(rsrc_value)
    IN  IF rsrc_value.t = "other"
        THEN [acc EXCEPT !.raised = "ValueError"]
        ELSE IF rsrc_key \in {"accelerator_model", "gpu_id"}
        THEN IF rsrc_value = StrVal(text_none)
             THEN [acc EXCEPT !.workloads = "cpu", !.type = "cpu",
                              !.items = Append(@, <<"gpu_model", StrVal(text_igpu)>>)]
             ELSE [acc EXCEPT !.workloads = "gpu", !.type = "gpu",
                              !.items = Append(@, <<"gpu_model", nv>>)]
        ELSE IF rsrc_key = "arch"
        THEN IF nv # StrVal(text_linux)
             THEN [acc EXCEPT !.items = Append(@, <<"cpu_microarchitecture", nv>>)]
             ELSE [acc EXCEPT !.items = Append(@, <<"cpu_microarchitecture", StrVal(text_unknown)>>)]
        ELSE IF rsrc_key = "host"
        THEN IF nv = StrVal(id) THEN acc ELSE [acc EXCEPT !.raised = "AssertionError"]
        ELSE IF rsrc_key = "ncpus"
        THEN LET n == to_int(nv)
             IN  IF n.raised # "none" THEN [acc EXCEPT !.raised = n.raised]
                 ELSE IF smt
                 THEN [acc EXCEPT !.items = Append(@, <<"cpu_cores", IntVal(n.v \div 2)>>)]
                 ELSE [acc EXCEPT !.items = Append(@, <<"cpu_cores", IntVal(n.v)>>)]
        ELSE IF rsrc_key = "ngpus"
        THEN LET n == to_int(nv)
             IN  IF n.raised # "none" THEN [acc EXCEPT !.raised = n.raised]
                 ELSE [acc EXCEPT !.items = Append(@, <<"gpu_boards", IntVal(n.v)>>)]
        ELSE IF rsrc_key = "mem"
        THEN IF nv.t # "str" THEN [acc EXCEPT !.raised = "TypeError"]
             ELSE LET m == norm_mem_to_gibi(nv.s, TRUE)
                  IN  IF m.raised # "none" THEN [acc EXCEPT !.raised = m.raised]
                      ELSE [acc EXCEPT !.items = Append(@, <<"memory_gb", IntVal(m.value)>>)]
        ELSE IF rsrc_key \in {"Qlist", "qlist"}
        THEN IF nv.t # "str" THEN [acc EXCEPT !.raised = "AttributeError"]
             ELSE [acc EXCEPT !.queue_list =
                       [defined |-> TRUE, value |-> str_split(nv.s, ",")]]
        ELSE acc

RECURSIVE parse_resource_items(_, _, _, _)
parse_resource_items(id, acc, resource_info, smt) ==
    IF resource_info = <<>> \/ acc.raised # "none" THEN acc
    ELSE parse_resource_items(
             id,
             parse_resource_item(id, acc, resource_info[1][1], resource_info[1][2], smt),
             Tail(resource_info), smt)

\* tuple order of sorted() on the values appended under one key
value_less(a, b) ==
    IF a.t = "int" /\ b.t = "int" THEN a.v < b.v
    ELSE IF a.t = "str" /\ b.t = "str" THEN str_less(a.s, b.s)
    ELSE FALSE

\* col.OrderedDict(sorted(machine_resources)): of the tuples with one key the
\* last in sorted order, the one with the greatest value, is kept.
sorted_dict(items) ==
    LET keys == {items[i][1] : i \in 1..Len(items)}
        vals(k) == {items[i][2] : i \in {j \in 1..Len(items) : items[j][1] = k}}
    IN  [k \in keys |-> CHOOSE v \in vals(k) : \A w \in vals(k) : ~value_less(v, w)]

minimal_rsrc_set == {"cpu_cores", "gpu_boards", "memory_gb"}

\* with the minimal set asserted, a missing numeric key is set to 0
with_minimal_set(d) ==
    [k \in DOMAIN d \cup minimal_rsrc_set |-> IF k \in DOMAIN d THEN d[k] ELSE IntVal(0)]

\* What a call leaves once the loop has ended with acc: the record it returns
\* and the attributes of self
parse_resource_result(acc, assert_minimal_set) ==
    [raised     |-> acc.raised,
     rsrc       |-> IF assert_minimal_set
                    THEN with_minimal_set(sorted_dict(acc.items))
                    ELSE sorted_dict(acc.items),
     type       |-> acc.type,
     workloads  |-> acc.workloads,
     queue_list |-> acc.queue_list]

\* Returns [raised, rsrc, type, workloads, queue_list]
parse_resource_info(self, resource_info, assert_minimal_set, smt) ==
    parse_resource_result(
        parse_resource_items(self.id, ParseAcc(self), resource_info, smt),
        assert_minimal_set)

----------------------------------------------------------------------------
(* ClusterNode: construction, load estimate, queries and size comparison   *)

\* round(x, 2): load_estimate is held in hundredths
LoadScale == 100

consider_keys == <<"cpu_cores", "gpu_boards", "memory_gb">>

\* sum of the ratios used/value of a sequence of <<used, value>> pairs, as a
\* fraction <<numerator, denominator>>
RECURSIVE sum_ratios(_)
sum_ratios(load_values) ==
    IF load_values = <<>> THEN <<0, 1>>
    ELSE LET rest == sum_ratios(Tail(load_values))
             u    == load_values[1][1]
             c    == load_values[1][2]
         IN  <<rest[1] * c + u * rest[2], rest[2] * c>>

max_of_second(a, b) == b

max(a, b) == IF a >= b THEN a ELSE b

\* a variant of the loop without the assertion on the workloads of a node
\* that has a dimension of capacity 0
RECURSIVE estimate_loop_unasserted(_, _, _)
estimate_loop_unasserted(self, i, acc) ==
    IF i > Len(consider_keys) \/ acc.raised # "none" THEN acc
    ELSE LET rsrc_key == consider_keys[i]
         IN  IF rsrc_key \notin DOMAIN self.rsrc_machine
             THEN estimate_loop_unasserted(self, i + 1, acc)
             ELSE
             LET rsrc_value == self.rsrc_machine[rsrc_key].v
                 missing    == rsrc_key \notin DOMAIN acc.rsrc_used
                 used1      == IF missing
                               THEN [k \in DOMAIN acc.rsrc_used \cup {rsrc_key} |->
                                        IF k = rsrc_key THEN IntVal(0) ELSE acc.rsrc_used[k]]
                               ELSE acc.rsrc_used
                 rsrc_used  == used1[rsrc_key].v
                 remain1    == [k \in DOMAIN acc.rsrc_remain \cup {rsrc_key} |->
                                   IF k = rsrc_key THEN max(0, rsrc_value - rsrc_used)
                                   ELSE acc.rsrc_remain[k]]
                 acc1       == [acc EXCEPT !.rsrc_used = used1, !.rsrc_remain = remain1]
             IN  IF rsrc_value = 0
                 THEN estimate_loop_unasserted(self, i + 1, acc1)
                 ELSE estimate_loop_unasserted(self, i + 1,
                          [acc1 EXCEPT !.load_values = Append(@, <<rsrc_used, rsrc_value>>)])

\* The loop of _estimate_node_load over the keys of rsrc_machine, from key
\* number i on.  acc = [raised, rsrc_used, rsrc_remain, load_values].
RECURSIVE estimate_loop(_, _, _)
estimate_loop(self, i, acc) ==
    IF i > Len(consider_keys) \/ acc.raised # "none" THEN acc
    ELSE LET rsrc_key == consider_keys[i]
         IN  IF rsrc_key \notin DOMAIN self.rsrc_machine
             THEN estimate_loop(self, i + 1, acc)
             ELSE
             LET rsrc_value == self.rsrc_machine[rsrc_key].v
                 missing    == rsrc_key \notin DOMAIN acc.rsrc_used
                 used1      == IF missing
                               THEN [k \in DOMAIN acc.rsrc_used \cup {rsrc_key} |->
                                        IF k = rsrc_key THEN IntVal(0) ELSE acc.rsrc_used[k]]
                               ELSE acc.rsrc_used
                 rsrc_used  == used1[rsrc_key].v
                 remain1    == [k \in DOMAIN acc.rsrc_remain \cup {rsrc_key} |->
                                   IF k = rsrc_key THEN max(0, rsrc_value - rsrc_used)
                                   ELSE acc.rsrc_remain[k]]
                 acc1       == [acc EXCEPT !.rsrc_used = used1, !.rsrc_remain = remain1]
             IN  IF rsrc_value = 0
                 THEN IF self.workloads = "cpu"
                      THEN estimate_loop(self, i + 1, acc1)
                      ELSE [acc1 EXCEPT !.raised = "AssertionError"]
                 ELSE estimate_loop(self, i + 1,
                          [acc1 EXCEPT !.load_values = Append(@, <<rsrc_used, rsrc_value>>)])

\* self.load_estimate = round(sum(load_values) / len(load_values), 2), after
\* the loop has ended with acc
load_estimate_of(acc) ==
    LET s == sum_ratios(acc.load_values)
        n == Len(acc.load_values)
    IN  IF acc.raised # "none"
        THEN [raised |-> acc.raised, rsrc_used |-> acc.rsrc_used,
              rsrc_remain |-> acc.rsrc_remain, load_estimate |-> 0]
        ELSE IF n = 0
        THEN [raised |-> "ZeroDivisionError", rsrc_used |-> acc.rsrc_used,
              rsrc_remain |-> acc.rsrc_remain, load_estimate |-> 0]
        ELSE [raised |-> "none", rsrc_used |-> acc.rsrc_used,
              rsrc_remain |-> acc.rsrc_remain,
              load_estimate |-> round_half_even(LoadScale * s[1], s[2] * n)]

\* Returns [raised, rsrc_used, rsrc_remain, load_estimate]
estimate_node_load(self) ==
    load_estimate_of(
        estimate_loop(self, 1,
            [raised |-> "none", rsrc_used |-> self.rsrc_used,
             rsrc_remain |-> <<>>, load_values |-> <<>>]))

Undefined == [defined |-> FALSE, value |-> <<>>]

NoNode ==
    [id |-> <<>>, state |-> NodeState_invalid, type |-> "None", workloads |-> "None",
     queue_list |-> Undefined, rsrc_machine |-> <<>>, rsrc_used |-> <<>>,
     rsrc_remain |-> <<>>, load_estimate |-> 0]

\* The statements of ClusterNode.__init__ act on r = [raised, warned, node]:
\* node is self, raised the exception that ended the construction ("none"
\* while it goes on), warned the number of diagnostics written.

\* self.state = <the result st of _parse_state>
set_state(r, st) ==
    IF st.raised # "none" THEN [r EXCEPT !.raised = st.raised]
    ELSE [r EXCEPT !.warned = st.warned, !.node.state = st.state]

\* self.rsrc_machine = <the result m of _parse_resource_info>; the call has
\* assigned type, workloads and queue_list
set_rsrc_machine(r, m) ==
    IF r.raised # "none" THEN r
    ELSE IF m.raised # "none" THEN [r EXCEPT !.raised = m.raised]
    ELSE [r EXCEPT !.node.type = m.type, !.node.workloads = m.workloads,
                   !.node.queue_list = m.queue_list, !.node.rsrc_machine = m.rsrc]

\* self.rsrc_used = <the result u of _parse_resource_info>
set_rsrc_used(r, u) ==
    IF r.raised # "none" THEN r
    ELSE IF u.raised # "none" THEN [r EXCEPT !.raised = u.raised]
    ELSE [r EXCEPT !.node.type = u.type, !.node.workloads = u.workloads,
                   !.node.queue_list = u.queue_list, !.node.rsrc_used = u.rsrc]

\* if self.type is None: self.type = "cpu"; self.workloads = "cpu"
set_default_type(r) ==
    IF r.raised = "none" /\ r.node.type = "None"
    THEN [r EXCEPT !.node.type = "cpu", !.node.workloads = "cpu"]
    ELSE r

\* a variant of the assignments after _estimate_node_load that leaves
\* self.rsrc_used as _parse_resource_info returned it
set_load_without_used(r, e) ==
    IF r.raised # "none" THEN r
    ELSE IF e.raised # "none" THEN [r EXCEPT !.raised = e.raised]
    ELSE [r EXCEPT !.node.rsrc_remain = e.rsrc_remain,
                   !.node.load_estimate = e.load_estimate]

\* what self._estimate_node_load() with the result e assigns
set_load(r, e) ==
    IF r.raised # "none" THEN r
    ELSE IF e.raised # "none" THEN [r EXCEPT !.raised = e.raised]
    ELSE [r EXCEPT !.node.rsrc_used = e.rsrc_used, !.node.rsrc_remain = e.rsrc_remain,
                   !.node.load_estimate = e.load_estimate]

init_state(r, node_infos) == set_state(r, parse_state(node_infos.state))

init_machine(r, node_infos, smt) ==
    set_rsrc_machine(r, parse_resource_info(r.node, node_infos.resources_available,
                                            TRUE, smt))

\* the second positional argument is assert_minimal_set; correct_smt keeps
\* its default
init_used(r, node_infos, smt) ==
    set_rsrc_used(r, parse_resource_info(r.node, node_infos.resources_assigned,
                                         smt, FALSE))

init_load(r) == set_load(r, estimate_node_load(r.node))

\* no node exists when the construction raised
init_result(r) == IF r.raised # "none" THEN [r EXCEPT !.node = NoNode] ELSE r

\* ClusterNode(node_name, node_infos, correct_smt): [raised, warned, node]
ClusterNode(node_name, node_infos, smt) ==
    init_result(
      init_load(
        set_default_type(
          init_used(
            init_machine(
              init_state([raised |-> "none", warned |-> 0,
                          node |-> [NoNode EXCEPT !.id = node_name]],
                         node_infos),
              node_infos, smt),
            node_infos, smt))))

\* ClusterNode._get_rsrc
get_rsrc(self) ==
    <<self.rsrc_machine["cpu_cores"].v,
      self.rsrc_machine["memory_gb"].v,
      self.rsrc_machine["gpu_boards"].v>>

\* The second statement of _get_free: free_rsrc is bound to (-1,-1,-1) when
\* cores or memory are short, and is unbound otherwise.
free_rsrc_if_short(free_cpu, free_mem) ==
    IF free_cpu < 1 \/ free_mem < 2
    THEN [bound |-> TRUE, value |-> <<-1, -1, -1>>]
    ELSE [bound |-> FALSE, value |-> <<>>]

\* The third statement of _get_free: an if/elif/else of which every branch
\* binds free_rsrc, whatever it was bound to before.
free_rsrc_by_priority(before, priority, free_cpu, free_gpu, free_mem) ==
    IF priority = "cpu"
    THEN [bound |-> TRUE, value |-> <<free_cpu, free_mem, free_gpu>>]
    ELSE IF priority = "gpu"
    THEN [bound |-> TRUE, value |-> <<free_gpu, free_mem, free_cpu>>]
    ELSE [bound |-> TRUE, value |-> <<free_mem, free_cpu, free_gpu>>]

Priorities == {"cpu", "gpu", "mem"}

\* ClusterNode._get_free(priority): [raised, value]
get_free(self, priority) ==
    IF priority \notin Priorities
    THEN [raised |-> "AssertionError", value |-> <<>>]
    ELSE LET free_cpu == self.rsrc_remain["cpu_cores"]
             free_gpu == self.rsrc_remain["gpu_boards"]
             free_mem == self.rsrc_remain["memory_gb"]
             first    == free_rsrc_if_short(free_cpu, free_mem)
             second   == free_rsrc_by_priority(first, priority, free_cpu, free_gpu, free_mem)
         IN  [raised |-> "none", value |-> second.value]

\* ClusterNode.__eq__
node_eq(self, other) ==
    LET same_cpu == self.rsrc_machine["cpu_cores"].v = other.rsrc_machine["cpu_cores"].v
        same_mem == self.rsrc_machine["memory_gb"].v = other.rsrc_machine["memory_gb"].v
        same_gpu == self.rsrc_machine["gpu_boards"].v = other.rsrc_machine["gpu_boards"].v
    IN  same_cpu /\ same_mem /\ same_gpu

\* a variant of ClusterNode.__lt__ that reads (less_cpu or less_mem) and
\* less_equal_gpu
node_lt_regrouped(self, other) ==
    LET less_cpu == self.rsrc_machine["cpu_cores"].v < other.rsrc_machine["cpu_cores"].v
        less_mem == self.rsrc_machine["memory_gb"].v < other.rsrc_machine["memory_gb"].v
        less_equal_gpu == self.rsrc_machine["gpu_boards"].v <= other.rsrc_machine["gpu_boards"].v
    IN  (less_cpu \/ less_mem) /\ less_equal_gpu

\* a variant of ClusterNode.__lt__ that compares the cores only
node_lt_by_cores(self, other) ==
    self.rsrc_machine["cpu_cores"].v < other.rsrc_machine["cpu_cores"].v

\* ClusterNode.__lt__: `or` binds weaker than `and`
node_lt(self, other) ==
    LET less_cpu == self.rsrc_machine["cpu_cores"].v < other.rsrc_machine["cpu_cores"].v
        less_mem == self.rsrc_machine["memory_gb"].v < other.rsrc_machine["memory_gb"].v
        less_equal_gpu == self.rsrc_machine["gpu_boards"].v <= other.rsrc_machine["gpu_boards"].v
    IN  less_cpu \/ (less_mem /\ less_equal_gpu)

\* ClusterNode.__gt__
node_gt(self, other) ==
    LET more_cpu == self.rsrc_machine["cpu_cores"].v > other.rsrc_machine["cpu_cores"].v
        more_mem == self.rsrc_machine["memory_gb"].v > other.rsrc_machine["memory_gb"].v
        more_equal_gpu == self.rsrc_machine["gpu_boards"].v >= other.rsrc_machine["gpu_boards"].v
    IN  more_cpu \/ (more_mem /\ more_equal_gpu)

\* ClusterNode.__repr__, as far as it can fail: the name of the exception
\* that print(node) raises, "none" when the node is printed.
node_repr(self) ==
    IF ~self.queue_list.defined THEN "AttributeError"
    ELSE IF "cpu_microarchitecture" \notin DOMAIN self.rsrc_machine THEN "KeyError"
    ELSE IF self.type = "gpu" /\ "gpu_model" \notin DOMAIN self.rsrc_machine THEN "KeyError"
    ELSE "none"

----------------------------------------------------------------------------
(* sorted(): list.sort of CPython for lists shorter than 64 elements       *)

\* tuple comparison a < b for tuples of integers
RECURSIVE tuple_less(_, _)
tuple_less(a, b) ==
    IF b = <<>> THEN FALSE
    ELSE IF a = <<>> THEN TRUE
    ELSE IF a[1] # b[1] THEN a[1] < b[1]
    ELSE tuple_less(Tail(a), Tail(b))

\* The `<` that sorted() applies to two nodes: on the key when a key function
\* is given (name: node.id, free: node._get_free(priority)), ClusterNode.__lt__
\* otherwise (size).
sort_less(order, a, b) ==
    IF order.by = "name" THEN str_less(a.id, b.id)
    ELSE IF order.by = "free"
    THEN tuple_less(get_free(a, order.priority).value, get_free(b, order.priority).value)
    ELSE node_lt(a, b)

Reverse(s) == [i \in 1..Len(s) |-> s[Len(s) + 1 - i]]

\* count_run: length of the run at the start of s, negative when the run is
\* strictly descending
RECURSIVE run_end(_, _, _, _)
run_end(s, i, descending, order) ==
    IF i > Len(s) THEN Len(s)
    ELSE IF sort_less(order, s[i], s[i - 1]) = descending
    THEN run_end(s, i + 1, descending, order)
    ELSE i - 1

\* binarysort: the position in s[1..r-1] at which pivot is inserted
RECURSIVE bin_pos(_, _, _, _, _)
bin_pos(s, pivot, l, r, order) ==
    IF l >= r THEN l
    ELSE LET p == l + ((r - l) \div 2)
         IN  IF sort_less(order, pivot, s[p])
             THEN bin_pos(s, pivot, l, p, order)
             ELSE bin_pos(s, pivot, p + 1, r, order)

RECURSIVE binarysort(_, _, _)
binarysort(s, start, order) ==
    IF start > Len(s) THEN s
    ELSE LET pivot == s[start]
             l     == bin_pos(s, pivot, 1, start, order)
         IN  binarysort(
                 SubSeq(s, 1, l - 1) \o <<pivot>> \o SubSeq(s, l, start - 1)
                     \o SubSeq(s, start + 1, Len(s)),
                 start + 1, order)

list_sort(s, order) ==
    IF Len(s) < 2 THEN s
    ELSE LET descending == sort_less(order, s[2], s[1])
             n          == run_end(s, 3, descending, order)
             s1         == IF descending
                           THEN Reverse(SubSeq(s, 1, n)) \o SubSeq(s, n + 1, Len(s))
                           ELSE s
         IN  binarysort(s1, n + 1, order)

\* sorted(s, key=..., reverse=...): a reversed sort reverses the list, sorts
\* it and reverses the result, which keeps equal elements in their order
sorted(s, order, reverse) ==
    IF reverse THEN Reverse(list_sort(Reverse(s), order)) ELSE list_sort(s, order)

----------------------------------------------------------------------------
(* PBSCluster                                                              *)

\* round(x, 1): a percentage is held in tenths of a percent
PercentScale == 10

\* a variant of Infrastructure.percent that reports 0.0 for a denominator of 0
percent_guarded(enumerator, denominator) ==
    IF denominator = 0
    THEN [raised |-> "none", value |-> 0]
    ELSE [raised |-> "none",
          value  |-> round_half_even(enumerator * 100 * PercentScale, denominator)]

\* Infrastructure.percent: [raised, value]
percent(enumerator, denominator) ==
    IF denominator = 0
    THEN [raised |-> "ZeroDivisionError", value |-> 0]
    ELSE [raised |-> "none",
          value  |-> round_half_even(enumerator * 100 * PercentScale, denominator)]

RECURSIVE seq_sum(_)
seq_sum(s) == IF s = <<>> THEN 0 ELSE s[1] + seq_sum(Tail(s))

count_type(nodes, type) == Len(SelectSeq(nodes, LAMBDA n : n.type = type))

rsrc_total(nodes, key) == seq_sum([i \in 1..Len(nodes) |-> nodes[i].rsrc_machine[key].v])

\* PBSCluster.__init__: the list comprehension over node_infos["nodes"].
\* [raised, warned, node_list]; the first exception ends the construction.
add_node(acc, c) ==
    [raised    |-> c.raised,
     warned    |-> acc.warned + c.warned,
     node_list |-> IF c.raised = "none" THEN Append(acc.node_list, c.node)
                   ELSE acc.node_list]

RECURSIVE build_nodes(_, _, _)
build_nodes(nodes, smt, acc) ==
    IF nodes = <<>> \/ acc.raised # "none" THEN acc
    ELSE build_nodes(Tail(nodes), smt,
                     add_node(acc, ClusterNode(nodes[1].name, nodes[1].info, smt)))

PBSCluster_init(nodes, smt) ==
    build_nodes(nodes, smt, [raised |-> "none", warned |-> 0, node_list |-> <<>>])

\* PBSCluster.__repr__: the counts and the six percentages of the report, in
\* the order in which the f-string evaluates them
cluster_repr(nodes) ==
    LET online_list == SelectSeq(nodes, LAMBDA n : n.state.value = 0)
        total_nodes       == Len(nodes)
        cpu_nodes         == count_type(nodes, "cpu")
        gpu_nodes         == count_type(nodes, "gpu")
        online_nodes      == Len(online_list)
        online_cpu_nodes  == count_type(online_list, "cpu")
        online_gpu_nodes  == count_type(online_list, "gpu")
        total_memory      == rsrc_total(nodes, "memory_gb")
        online_memory     == rsrc_total(online_list, "memory_gb")
        total_cpu         == rsrc_total(nodes, "cpu_cores")
        online_cpu_cores  == rsrc_total(online_list, "cpu_cores")
        total_gpu         == rsrc_total(nodes, "gpu_boards")
        online_gpu_boards == rsrc_total(online_list, "gpu_boards")
        pcts == << percent(online_nodes, total_nodes),
                   percent(online_cpu_nodes, cpu_nodes),
                   percent(online_gpu_nodes, online_gpu_nodes),
                   percent(online_cpu_cores, total_cpu),
                   percent(online_memory, total_memory),
                   percent(online_gpu_boards, total_gpu) >>
    IN  [raised |-> IF \E i \in 1..6 : pcts[i].raised # "none"
                    THEN "ZeroDivisionError" ELSE "none",
         total_nodes |-> total_nodes, online_nodes |-> online_nodes,
         cpu_nodes |-> cpu_nodes, online_cpu_nodes |-> online_cpu_nodes,
         gpu_nodes |-> gpu_nodes, online_gpu_nodes |-> online_gpu_nodes,
         total_cpu |-> total_cpu, online_cpu_cores |-> online_cpu_cores,
         total_memory |-> total_memory, online_memory |-> online_memory,
         total_gpu |-> total_gpu, online_gpu_boards |-> online_gpu_boards,
         pct_nodes |-> pcts[1].value, pct_cpu_nodes |-> pcts[2].value,
         pct_gpu_nodes |-> pcts[3].value, pct_cpu_cores |-> pcts[4].value,
         pct_memory |-> pcts[5].value, pct_gpu_boards |-> pcts[6].value]

NodeStateArgs == {"all", "online", "offline"}
NodeTypeArgs  == {"all", "cpu", "gpu"}
SortOrders    == {"name", "size", "free"}

\* a variant of the state filter whose online selection is every node that
\* is not offline
state_filter_not_offline(node_state, node) ==
    IF node_state = "all" THEN TRUE
    ELSE IF node_state = "online" THEN node.state # NodeState_offline
    ELSE node.state = NodeState_offline

state_filter(node_state, node) ==
    IF node_state = "all" THEN TRUE
    ELSE IF node_state = "online" THEN node.state = NodeState_online
    ELSE node.state = NodeState_offline

type_filter(node_type, node) ==
    IF node_type = "all" THEN TRUE
    ELSE IF node_type = "cpu" THEN node.type = "cpu"
    ELSE node.type = "gpu"

\* the print loop from row n on: [raised, printed]
RECURSIVE print_rows(_, _, _, _, _)
print_rows(show_nodes, n, factor, top_n, acc) ==
    IF n > Len(show_nodes) \/ acc.raised # "none" THEN acc
    ELSE IF n * factor > top_n THEN acc
    ELSE LET r == node_repr(show_nodes[n])
         IN  print_rows(show_nodes, n + 1, factor, top_n,
                 [raised  |-> r,
                  printed |-> IF r = "none"
                              THEN Append(acc.printed, show_nodes[n].id)
                              ELSE acc.printed])

\* PBSCluster.print_node_list: [raised, printed]; printed lists the ids of
\* the nodes printed, in the order of printing
print_node_list(nodes, node_type, node_state, sort_order, sort_priority, top_n) ==
    IF node_state \notin NodeStateArgs \/ node_type \notin NodeTypeArgs
    THEN [raised |-> "RuntimeError", printed |-> <<>>]
    ELSE LET filtered1 == SelectSeq(nodes, LAMBDA n : state_filter(node_state, n))
             filtered2 == SelectSeq(filtered1, LAMBDA n : type_filter(node_type, n))
             order     == [by |-> sort_order, priority |-> sort_priority]
         IN  IF sort_order \notin SortOrders
             THEN [raised |-> "RuntimeError", printed |-> <<>>]
             ELSE IF sort_order = "free" /\ sort_priority \notin Priorities /\ filtered2 # <<>>
             THEN [raised |-> "AssertionError", printed |-> <<>>]
             ELSE LET show_nodes == IF sort_order = "name"
                                    THEN sorted(filtered2, order, FALSE)
                                    ELSE sorted(filtered2, order, TRUE)
                      factor     == IF top_n = 0 THEN -1 ELSE 1
                  IN  print_rows(show_nodes, 1, factor, top_n,
                                 [raised |-> "none", printed |-> <<>>])

----------------------------------------------------------------------------
(* PBSCluster._compute_stats: min, statistics.median, statistics.mode, max *)

\* sorted(data) for integers: insertion of each element after its equals
RECURSIVE int_insert(_, _)
int_insert(s, x) ==
    IF s = <<>> THEN <<x>>
    ELSE IF x < s[1] THEN <<x>> \o s
    ELSE <<s[1]>> \o int_insert(Tail(s), x)

RECURSIVE int_sorted(_)
int_sorted(data) ==
    IF data = <<>> THEN <<>>
    ELSE int_insert(int_sorted(SubSeq(data, 1, Len(data) - 1)), data[Len(data)])

RECURSIVE seq_min(_)
seq_min(s) == IF Len(s) = 1 THEN s[1]
              ELSE IF s[1] <= seq_min(Tail(s)) THEN s[1] ELSE seq_min(Tail(s))

RECURSIVE seq_max(_)
seq_max(s) == IF Len(s) = 1 THEN s[1]
              ELSE IF s[1] >= seq_max(Tail(s)) THEN s[1] ELSE seq_max(Tail(s))

\* statistics.median of a non-empty sample, as the fraction <<num, den>>:
\* the middle element, or (data[i - 1] + data[i]) / 2 for an even length
stats_median(data) ==
    IF Len(data) % 2 = 1
    THEN <<int_sorted(data)[(Len(data) \div 2) + 1], 1>>
    ELSE <<int_sorted(data)[Len(data) \div 2] + int_sorted(data)[(Len(data) \div 2) + 1], 2>>

\* int(x) of the fraction x = <<num, den>>: truncation towards zero
int_of(x) == IF x[1] >= 0 THEN x[1] \div x[2] ELSE 0 - ((0 - x[1]) \div x[2])

\* collections.Counter(iter(data)): <<value, count>> pairs in the order in
\* which the values were first met
RECURSIVE Counter(_)
Counter(data) ==
    IF data = <<>> THEN <<>>
    ELSE IF \E i \in 1..(Len(data) - 1) : data[i] = data[Len(data)]
    THEN [i \in 1..Len(Counter(SubSeq(data, 1, Len(data) - 1))) |->
             IF Counter(SubSeq(data, 1, Len(data) - 1))[i][1] = data[Len(data)]
             THEN <<data[Len(data)], Counter(SubSeq(data, 1, Len(data) - 1))[i][2] + 1>>
             ELSE Counter(SubSeq(data, 1, Len(data) - 1))[i]]
    ELSE Append(Counter(SubSeq(data, 1, Len(data) - 1)), <<data[Len(data)], 1>>)

\* a variant of most_common(1) that keeps the last of the pairs with the
\* greatest count
most_common_last(pairs) ==
    pairs[CHOOSE i \in 1..Len(pairs) :
              /\ \A j \in 1..Len(pairs) : pairs[j][2] <= pairs[i][2]
              /\ \A j \in (i + 1)..Len(pairs) : pairs[j][2] < pairs[i][2]]

\* Counter.most_common(1): max(items, key=count) keeps the first of the
\* pairs with the greatest count
most_common(pairs) ==
    pairs[CHOOSE i \in 1..Len(pairs) :
              /\ \A j \in 1..Len(pairs) : pairs[j][2] <= pairs[i][2]
              /\ \A j \in 1..(i - 1) : pairs[j][2] < pairs[i][2]]

\* statistics.mode of a non-empty sample
stats_mode(data) == most_common(Counter(data))[1]

\* PBSCluster._compute_stats: [raised, size, min, median, mode, max]; min()
\* of an empty list raises ValueError before the median is asked for
compute_stats(rsrc_list) ==
    IF rsrc_list = <<>>
    THEN [raised |-> "ValueError", size |-> 0, min |-> 0, median |-> 0,
          mode |-> 0, max |-> 0]
    ELSE [raised |-> "none",
          size   |-> Len(rsrc_list),
          min    |-> seq_min(rsrc_list),
          median |-> int_of(stats_median(rsrc_list)),
          mode   |-> stats_mode(rsrc_list),
          max    |-> seq_max(rsrc_list)]

----------------------------------------------------------------------------
(* PBSCluster._infer_cluster_name                                          *)

\* s[lo:hi] of Python for 0 <= lo <= hi: the slice ends where the text ends
str_slice(s, lo, hi) ==
    IF lo >= Len(s) THEN <<>>
    ELSE SubSeq(s, lo + 1, IF hi <= Len(s) THEN hi ELSE Len(s))

\* a[i:i+k] == b[j:j+k], a block of k elements within both sequences
block_matches(a, b, i, j, k) ==
    /\ i + k <= Len(a)
    /\ j + k <= Len(b)
    /\ \A t \in 1..k : a[i + t] = b[j + t]

\* the size of the longest block that a and b share, 0 when they share none
longest_size(a, b) ==
    CHOOSE k \in 0..Len(a) :
        /\ \E i \in 0..Len(a), j \in 0..Len(b) : block_matches(a, b, i, j, k)
        /\ \A k2 \in (k + 1)..Len(a) :
               ~\E i \in 0..Len(a), j \in 0..Len(b) : block_matches(a, b, i, j, k2)

\* of the blocks of size k, the one that starts earliest in a and, of those,
\* earliest in b; Match(alo, blo, 0) when there is none
match_of_size(a, b, k) ==
    IF k = 0 THEN [a |-> 0, b |-> 0, size |-> 0]
    ELSE [a    |-> CHOOSE i \in 0..Len(a) :
                      /\ \E j \in 0..Len(b) : block_matches(a, b, i, j, k)
                      /\ \A i2 \in 0..(i - 1) :
                             ~\E j \in 0..Len(b) : block_matches(a, b, i2, j, k),
          b    |-> CHOOSE j \in 0..Len(b) :
                      \E i \in 0..Len(a) :
                          /\ block_matches(a, b, i, j, k)
                          /\ \A i2 \in 0..(i - 1) :
                                 ~\E j2 \in 0..Len(b) : block_matches(a, b, i2, j2, k)
                          /\ \A j2 \in 0..(j - 1) : ~block_matches(a, b, i, j2, k),
          size |-> k]

\* SequenceMatcher.find_longest_match(0, len(a), 0, len(b)) with seq1 = a and
\* seq2 = b: Match(a, b, size), positions counted from 0
find_longest_match(a, b) == match_of_size(a, b, longest_size(a, b))

\* node.id[match.b:match.b+match.size]: the slice of the identity of the
\* other node at the position of the block in compare_name
tallied_text(node_id, match) == str_slice(node_id, match.b, match.b + match.size)

\* count_matches after the loop over the nodes: the node itself and the
\* nodes without a block in common are passed over
count_matches(ids, compare_name) ==
    Counter([i \in 1..Len(SelectSeq(ids, LAMBDA id :
                    id # compare_name /\ longest_size(id, compare_name) # 0)) |->
                tallied_text(
                    SelectSeq(ids, LAMBDA id :
                        id # compare_name /\ longest_size(id, compare_name) # 0)[i],
                    find_longest_match(
                        SelectSeq(ids, LAMBDA id :
                            id # compare_name /\ longest_size(id, compare_name) # 0)[i],
                        compare_name))])

\* a variant of the guess that takes the empty text from an empty tally
guess_of_defaulting(tally) ==
    IF tally = <<>> THEN [raised |-> "none", value |-> <<>>, tally |-> tally]
    ELSE [raised |-> "none", value |-> most_common(tally)[1], tally |-> tally]

\* count_matches.most_common(1)[0][0]: [raised, value, tally]; the index 0 of
\* an empty list raises IndexError
guess_of(tally) ==
    IF tally = <<>> THEN [raised |-> "IndexError", value |-> <<>>, tally |-> tally]
    ELSE [raised |-> "none", value |-> most_common(tally)[1], tally |-> tally]

\* one turn of the while loop with random_node chosen
guess(ids, random_node) == guess_of(count_matches(ids, ids[random_node]))

\* what _infer_cluster_name gives after two guesses g1 and g2 with the nodes
\* r1 and r2 chosen: the results are a set, of which pop() returns any
\* element; a diagnostic is written when there are two
inferred_names(r1, r2, g1, g2) ==
    { [raised |-> "none", chosen |-> <<r1, r2>>, guesses |-> <<g1.value, g2.value>>,
       tallies |-> <<g1.tally, g2.tally>>,
       warned |-> IF g1.value # g2.value THEN 1 ELSE 0, name |-> name] :
          name \in {g1.value, g2.value} }

\* the second turn of the loop, after the guess g1 of the first
second_guess(ids, r1, g1) ==
    IF g1.raised # "none"
    THEN { [raised |-> g1.raised, chosen |-> <<r1>>, guesses |-> <<>>,
            tallies |-> <<g1.tally>>, warned |-> 0, name |-> <<>>] }
    ELSE UNION { IF guess(ids, r2).raised # "none"
                 THEN { [raised |-> guess(ids, r2).raised, chosen |-> <<r1, r2>>,
                         guesses |-> <<g1.value>>,
                         tallies |-> <<g1.tally, guess(ids, r2).tally>>,
                         warned |-> 0, name |-> <<>>] }
                 ELSE inferred_names(r1, r2, g1, guess(ids, r2)) :
                 r2 \in 1..Len(ids) }

\* PBSCluster._infer_cluster_name: the outcomes over the choices of
\* rand.choice, which raises IndexError on an empty range
infer_cluster_name(ids) ==
    IF ids = <<>>
    THEN { [raised |-> "IndexError", chosen |-> <<>>, guesses |-> <<>>,
            tallies |-> <<>>, warned |-> 0, name |-> <<>>] }
    ELSE UNION { second_guess(ids, r1, guess(ids, r1)) : r1 \in 1..Len(ids) }

text_infer == <<"i", "n", "f", "e", "r">>

\* self.name after PBSCluster.__init__ with the nodes constructed
cluster_names(cluster_name, nodes) ==
    IF cluster_name # text_infer
    THEN { [raised |-> "none", chosen |-> <<>>, guesses |-> <<>>, tallies |-> <<>>,
            warned |-> 0, name |-> cluster_name] }
    ELSE infer_cluster_name([i \in 1..Len(nodes) |-> nodes[i].id])

----------------------------------------------------------------------------
(* PBSCluster.summarize_queue_resources                                    *)

RsrcTypes == {"machine", "free"}

\* a variant in which the gpu sample of a queue misses the first node
add_to_queue_late_gpu(summary, qlist, triple) ==
    [q \in DOMAIN summary \cup {qlist} |->
        IF q # qlist THEN summary[q]
        ELSE IF qlist \in DOMAIN summary
        THEN [cpu |-> Append(summary[q].cpu, triple[1]),
              mem |-> Append(summary[q].mem, triple[2]),
              gpu |-> Append(summary[q].gpu, triple[3])]
        ELSE [cpu |-> <<triple[1]>>, mem |-> <<triple[2]>>, gpu |-> <<>>]]

\* summary[qlist]["cpu"/"mem"/"gpu"].append(...) for one queue tag; a tag met
\* for the first time gets empty lists
add_to_queue(summary, qlist, triple) ==
    [q \in DOMAIN summary \cup {qlist} |->
        IF q # qlist THEN summary[q]
        ELSE IF qlist \in DOMAIN summary
        THEN [cpu |-> Append(summary[q].cpu, triple[1]),
              mem |-> Append(summary[q].mem, triple[2]),
              gpu |-> Append(summary[q].gpu, triple[3])]
        ELSE [cpu |-> <<triple[1]>>, mem |-> <<triple[2]>>, gpu |-> <<triple[3]>>]]

\* for qlist in node.queue_list
RECURSIVE add_to_queues(_, _, _)
add_to_queues(summary, queue_list, triple) ==
    IF queue_list = <<>> THEN summary
    ELSE add_to_queues(add_to_queue(summary, queue_list[1], triple),
                       Tail(queue_list), triple)

\* cpu, mem, gpu = node._get_rsrc() if rsrc_type == "machine" else node._get_free()
node_triple(node, rsrc_type) ==
    IF rsrc_type = "machine" THEN get_rsrc(node) ELSE get_free(node, "cpu").value

\* the loop over show_nodes: acc = [raised, summary]; reading the queue_list
\* of a node that has none raises AttributeError
RECURSIVE collect_queues(_, _, _)
collect_queues(show_nodes, rsrc_type, acc) ==
    IF show_nodes = <<>> \/ acc.raised # "none" THEN acc
    ELSE IF ~show_nodes[1].queue_list.defined
    THEN [acc EXCEPT !.raised = "AttributeError"]
    ELSE collect_queues(Tail(show_nodes), rsrc_type,
             [acc EXCEPT !.summary = add_to_queues(@, show_nodes[1].queue_list.value,
                                                   node_triple(show_nodes[1], rsrc_type))])

\* sorted(summary.keys())
RECURSIVE sorted_keys(_)
sorted_keys(keys) ==
    IF keys = {} THEN <<>>
    ELSE <<CHOOSE k \in keys : \A other \in keys \ {k} : str_less(k, other)>>
         \o sorted_keys(keys \ {CHOOSE k \in keys : \A other \in keys \ {k} : str_less(k, other)})

\* the block of the report for one queue, which ends with the statistics of
\* the gpu sample: the node count is the size of the cpu sample; the samples
\* are kept with their statistics
queue_block(qlist, resources, cpu_stats, mem_stats) ==
    [qlist  |-> qlist,
     nodes  |-> cpu_stats.size,
     values |-> resources,
     cpu    |-> cpu_stats,
     mem    |-> mem_stats,
     gpu    |-> compute_stats(resources.gpu)]

\* for qlist in sorted(summary.keys()): one block per queue
queue_blocks(keys, summary) ==
    [i \in 1..Len(keys) |->
        queue_block(keys[i], summary[keys[i]],
                    compute_stats(summary[keys[i]].cpu),
                    compute_stats(summary[keys[i]].mem))]

\* the report of the queues
queue_report(acc) ==
    IF acc.raised # "none" THEN [raised |-> acc.raised, blocks |-> <<>>]
    ELSE [raised |-> "none",
          blocks |-> queue_blocks(sorted_keys(DOMAIN acc.summary), acc.summary)]

\* PBSCluster.summarize_queue_resources: [raised, blocks]
summarize_queue_resources(nodes, node_state, rsrc_type) ==
    IF node_state \notin NodeStateArgs
    THEN [raised |-> "RuntimeError", blocks |-> <<>>]
    ELSE queue_report(
             collect_queues(SelectSeq(nodes, LAMBDA n : state_filter(node_state, n)),
                            rsrc_type, [raised |-> "none", summary |-> <<>>]))

----------------------------------------------------------------------------
(* Inputs: texts of the scheduler inventory                                *)

text_free     == <<"f", "r", "e", "e">>
text_jobbusy  == <<"j", "o", "b", "-", "b", "u", "s", "y">>
text_online   == <<"o", "n", "l", "i", "n", "e">>
text_down     == <<"d", "o", "w", "n">>
text_offline  == <<"o", "f", "f", "l", "i", "n", "e">>
text_state_unknown == <<"s", "t", "a", "t", "e", "-", "u", "n", "k", "n", "o", "w", "n">>
text_a100     == <<"a", "1", "0", "0">>
text_batch    == <<"b", "a", "t", "c", "h">>
text_gpu      == <<"g", "p", "u">>
text_gb       == <<"g", "b">>
text_kb       == <<"k", "b">>

\* a memory expression: the digits of v immediately followed by the unit
mem_text(v, unit) == int_to_str(v) \o unit

\* one entry of node_infos["nodes"]
NodeInfo(state, available, assigned) ==
    [state |-> state, resources_available |-> available, resources_assigned |-> assigned]

\* Node A of the example: cpu class, 16 cores, 64 GiB, no GPU, free, queue batch
InfoA ==
    NodeInfo(text_free,
             << <<"arch", StrVal(text_linux)>>,
                <<"accelerator_model", StrVal(text_none)>>,
                <<"mem", StrVal(mem_text(64, text_gb))>>,
                <<"ncpus", IntVal(16)>>,
                <<"ngpus", IntVal(0)>>,
                <<"Qlist", StrVal(text_batch)>> >>,
             <<>>)

\* Node B of the example: gpu class, 8 cores, 32 GiB, 2 boards a100, offline
InfoB ==
    NodeInfo(text_offline,
             << <<"arch", StrVal(text_linux)>>,
                <<"accelerator_model", StrVal(text_a100)>>,
                <<"mem", StrVal(mem_text(32, text_gb))>>,
                <<"ncpus", IntVal(8)>>,
                <<"ngpus", IntVal(2)>>,
                <<"Qlist", StrVal(text_gpu)>> >>,
             <<>>)

\* A busy gpu node: 4 of 8 cores, 31 of 32 GiB and 1 of 2 boards assigned
InfoBusyGpu ==
    NodeInfo(text_jobbusy,
             << <<"arch", StrVal(text_linux)>>,
                <<"accelerator_model", StrVal(text_a100)>>,
                <<"mem", StrVal(mem_text(32, text_gb))>>,
                <<"ncpus", IntVal(8)>>,
                <<"ngpus", IntVal(2)>>,
                <<"Qlist", StrVal(text_gpu)>> >>,
             << <<"mem", StrVal(mem_text(32505856, text_kb))>>,
                <<"ncpus", IntVal(4)>>,
                <<"ngpus", IntVal(1)>> >>)

\* A cpu node without accelerator keys whose cores are all assigned
InfoFullCpu ==
    NodeInfo(text_jobbusy,
             << <<"arch", StrVal(text_linux)>>,
                <<"mem", StrVal(mem_text(128, text_gb))>>,
                <<"ncpus", IntVal(8)>>,
                <<"Qlist", StrVal(text_batch \o <<",">> \o text_gpu)>> >>,
             << <<"mem", StrVal(mem_text(8, text_gb))>>,
                <<"ncpus", IntVal(8)>> >>)

\* A node that reports flags of both buckets and no Qlist resource
InfoMixed ==
    NodeInfo(text_free \o <<",">> \o text_down,
             << <<"arch", StrVal(text_linux)>>,
                <<"mem", StrVal(mem_text(64, text_gb))>>,
                <<"ncpus", IntVal(16)>> >>,
             <<>>)

ClusterInfos == {InfoA, InfoB, InfoBusyGpu, InfoFullCpu, InfoMixed}

IdA == <<"A">>
IdB == <<"B">>
NodeNames == {IdA, IdB, <<"a", "B">>}

\* the largest inventory of a run
MaxNodes == 3

\* the largest row cap of a listing
MaxTopN == 2

Entries(names, infos) == [name : names, info : infos]

\* node names are keys of a JSON object: no two entries share one
DistinctNames(s) == \A i, j \in 1..Len(s) : i # j => s[i].name # s[j].name

ExampleInventory == << [name |-> IdA, info |-> InfoA], [name |-> IdB, info |-> InfoB] >>

----------------------------------------------------------------------------
(* The run of evaluate_cluster_status: construction, then the reports      *)

NoOp == [name |-> "none"]

\* the cluster name given on the command line
text_hpc == <<"h", "p", "c">>

Init ==
    /\ pc = "start"
    /\ arg = [cluster_name |-> text_hpc]
    /\ ret = NoValue
    /\ \E k \in 0..MaxNodes :
          /\ inventory \in [1..k -> Entries(NodeNames, ClusterInfos)]
          /\ DistinctNames(inventory)
    /\ correct_smt \in BOOLEAN
    /\ node_list = <<>>
    /\ stderr = 0
    /\ op = NoOp

\* cluster = PBSCluster(args.cluster_name, node_infos, args.correct_smt)
Construct ==
    /\ pc = "start"
    /\ \E c \in {PBSCluster_init(inventory, correct_smt)} :
           \/ /\ c.raised # "none"
              /\ pc' = "aborted"
              /\ node_list' = <<>>
              /\ stderr' = stderr + c.warned
              /\ op' = [name |-> "init", raised |-> c.raised, nodes_built |-> FALSE]
           \/ /\ c.raised = "none"
              /\ \E n \in cluster_names(arg.cluster_name, c.node_list) :
                    /\ pc' = IF n.raised = "none" THEN "ready" ELSE "aborted"
                    /\ node_list' = IF n.raised = "none" THEN c.node_list ELSE <<>>
                    /\ stderr' = stderr + c.warned + n.warned
                    /\ op' = [name |-> "init", raised |-> n.raised, nodes_built |-> TRUE,
                              cluster_name |-> n.name, chosen |-> n.chosen,
                              guesses |-> n.guesses, tallies |-> n.tallies]
    /\ UNCHANGED <<arg, ret, inventory, correct_smt>>

\* cluster.print_node_list(node_type, node_state, node_list, free_priority, show_first_n)
PrintNodeList ==
    /\ pc = "ready"
    /\ \E node_type \in NodeTypeArgs, node_state \in NodeStateArgs,
          sort \in {[by |-> "name", priority |-> "cpu"], [by |-> "size", priority |-> "cpu"],
                    [by |-> "none", priority |-> "cpu"]}
                   \cup {[by |-> "free", priority |-> p] : p \in Priorities},
          top_n \in 0..MaxTopN :
          \E r \in {print_node_list(node_list, node_type, node_state,
                                    sort.by, sort.priority, top_n)} :
              /\ op' = [name |-> "print_node_list", node_type |-> node_type,
                        node_state |-> node_state, sort_order |-> sort.by,
                        sort_priority |-> sort.priority, top_n |-> top_n,
                        raised |-> r.raised, printed |-> r.printed]
              /\ pc' = IF r.raised = "none" THEN "listed" ELSE "aborted"
    /\ UNCHANGED <<arg, ret, inventory, correct_smt, node_list, stderr>>

\* print(cluster): the report is what __repr__ returns; no text is returned
\* when it raises. The record of the operation keeps args.node_state of a
\* listing that came before.
Summary ==
    /\ pc \in {"ready", "listed"}
    /\ \E r \in {cluster_repr(node_list)} :
           /\ op' = [name |-> "repr", raised |-> r.raised,
                     node_state |-> IF pc = "listed" THEN op.node_state ELSE "unset",
                     report |-> IF r.raised = "none" THEN r ELSE NoValue]
           /\ pc' = IF r.raised = "none" THEN "summarized" ELSE "aborted"
    /\ UNCHANGED <<arg, ret, inventory, correct_smt, node_list, stderr>>

\* args.node_state: the value that a listing of this run has used, any of the
\* choices when there was no listing
args_node_state ==
    IF pc = "ready" THEN NodeStateArgs
    ELSE IF op.node_state = "unset" THEN NodeStateArgs
    ELSE {op.node_state}

\* print(cluster.summarize_queue_resources(args.node_state, args.queue_resources))
QueueSummary ==
    /\ pc \in {"ready", "listed", "summarized"}
    /\ \E node_state \in args_node_state, rsrc_type \in RsrcTypes :
          \E r \in {summarize_queue_resources(node_list, node_state, rsrc_type)} :
              /\ op' = [name |-> "queue_resources", node_state |-> node_state,
                        rsrc_type |-> rsrc_type, raised |-> r.raised,
                        blocks |-> r.blocks]
              /\ pc' = IF r.raised = "none" THEN "queued" ELSE "aborted"
    /\ UNCHANGED <<arg, ret, inventory, correct_smt, node_list, stderr>>

Next == Construct \/ PrintNodeList \/ Summary \/ QueueSummary

Spec == Init /\ [][Next]_vars

----------------------------------------------------------------------------
(* The node interface: one or two nodes built from a wide range of raw     *)
(* records, then queried through _get_free and the comparison operators    *)

\* the mark of an entry that a raw record does not have
Absent == 0 - 1

\* the raw resource maps of a record, built from optional entries
opt_int(key, n) == IF n = Absent THEN <<>> ELSE << <<key, IntVal(n)>> >>
opt_str(key, present, text) == IF present THEN << <<key, StrVal(text)>> >> ELSE <<>>

\* the accelerator value none as a scheduler may write it, with a blank and
\* a capital letter
text_none_noisy == <<" ", "N", "o", "n", "e">>

\* accel: "absent", "none", "noisy" or "a100"; numbers: Absent or the reported
\* value; memory in GiB, written with the unit gb (available) or kb (assigned)
WideInfo(state, accel, ncpus, ngpus, mem, a_ncpus, a_ngpus, a_mem) ==
    NodeInfo(state,
             << <<"arch", StrVal(text_linux)>> >>
                 \o opt_str("accelerator_model", accel # "absent",
                            IF accel = "none" THEN text_none
                            ELSE IF accel = "noisy" THEN text_none_noisy
                            ELSE text_a100)
                 \o opt_str("mem", mem # Absent, mem_text(mem, text_gb))
                 \o opt_int("ncpus", ncpus)
                 \o opt_int("ngpus", ngpus)
                 \o << <<"Qlist", StrVal(text_batch)>> >>,
             opt_str("mem", a_mem # Absent, mem_text(a_mem * 1048576, text_kb))
                 \o opt_int("ncpus", a_ncpus)
                 \o opt_int("ngpus", a_ngpus))

WideStates == {text_free, <<"<">> \o text_offline \o <<">">>,
               text_jobbusy \o <<",">> \o text_down}

\* the largest core count and memory size of a wide record
MaxCores == 8
MaxMemGb == 4

\* the scheduler assigns no more than a node has
WithinCapacity(info) ==
    LET cap(map, key) ==
            IF \E i \in 1..Len(map) : map[i][1] = key
            THEN LET v == (CHOOSE i \in 1..Len(map) : map[i][1] = key)
                 IN  IF map[v][2].t = "int" THEN map[v][2].v
                     ELSE norm_mem_to_gibi(map[v][2].s, TRUE).value
            ELSE 0
    IN  \A key \in {"ncpus", "ngpus", "mem"} :
            cap(info.resources_assigned, key) <= cap(info.resources_available, key)

\* two nodes that differ in capacity and in what is assigned
SizeInfos ==
    { WideInfo(text_free, IF ngpus = 0 THEN "none" ELSE "a100", ncpus, ngpus, mem,
               a_ncpus, Absent, Absent) :
        ncpus \in {MaxCores \div 2, MaxCores}, ngpus \in {0, 2}, mem \in {2, MaxMemGb},
        a_ncpus \in {Absent, 2} }

\* records of nodes that report no cores and no memory, and no boards or 0
ZeroInfos ==
    { WideInfo(text_free, accel, Absent, ngpus, Absent, Absent, Absent, Absent) :
        accel \in {"absent", "none", "noisy"}, ngpus \in {Absent, 0} }

\* node identities for the host check: with capital letters and without
IdLower   == <<"n", "1">>
HostNames == {IdA, <<"a", "B">>, IdLower, str_upper(IdLower)}

\* a free cpu node of 8 cores and 4 GiB whose record names its host
HostInfo(host) ==
    NodeInfo(text_free,
             << <<"arch", StrVal(text_linux)>>,
                <<"host", StrVal(host)>>,
                <<"mem", StrVal(mem_text(4, text_gb))>>,
                <<"ncpus", IntVal(8)>>,
                <<"Qlist", StrVal(text_batch)>> >>,
             <<>>)

\* node identities for the inference of the cluster name: two with a common
\* beginning, one that holds another at a later position, one with no
\* character of the others
InferNames == { <<"n", "1">>, <<"n", "2">>, <<"x", "n", "1">>, <<"y", "z">> }

\* the largest inventory of which the cluster name is inferred
MaxInferNodes == 3

\* records of nodes with nothing assigned, for comparisons of three nodes
ChainInfos ==
    { WideInfo(text_free, IF ngpus = 0 THEN "none" ELSE "a100", ncpus, ngpus, mem,
               Absent, Absent, Absent) :
        ncpus \in {MaxCores \div 2, MaxCores}, ngpus \in {0, 2}, mem \in {2, MaxMemGb} }

InitNode ==
    /\ pc = "start"
    /\ ret = NoValue
    /\ \/ /\ arg = [cluster_name |-> text_hpc]
          /\ \E st \in WideStates, accel \in {"absent", "none", "noisy", "a100"},
                ncpus \in {Absent, 1, MaxCores}, ngpus \in {Absent, 0, 2},
                mem \in {Absent, 0, 2, MaxMemGb},
                a_ncpus \in {Absent, 0, 1, MaxCores}, a_ngpus \in {Absent, 1, 2},
                a_mem \in {Absent, 1, MaxMemGb - 1, MaxMemGb} :
                inventory = << [name |-> IdA,
                                info |-> WideInfo(st, accel, ncpus, ngpus, mem,
                                                  a_ncpus, a_ngpus, a_mem)] >>
          /\ WithinCapacity(inventory[1].info)
       \/ /\ arg = [cluster_name |-> text_hpc]
          /\ inventory \in [1..2 -> Entries({IdA, IdB}, SizeInfos)]
          /\ inventory[1].name = IdA
          /\ inventory[2].name = IdB
       \/ /\ arg = [cluster_name |-> text_hpc]
          /\ \E name \in HostNames, host \in HostNames :
                inventory = << [name |-> name, info |-> HostInfo(host)] >>
       \/ /\ arg = [cluster_name |-> text_hpc]
          /\ inventory \in [1..3 -> Entries(NodeNames, ChainInfos)]
          /\ inventory[1].name = IdA
          /\ inventory[2].name = IdB
          /\ inventory[3].name # IdA
          /\ inventory[3].name # IdB
       \/ /\ arg = [cluster_name |-> text_hpc]
          /\ inventory \in [1..2 -> Entries({IdA, IdB}, {InfoA} \cup ZeroInfos)]
          /\ DistinctNames(inventory)
       \/ /\ arg = [cluster_name |-> text_infer]
          /\ \E k \in 0..MaxInferNodes :
                /\ inventory \in [1..k -> Entries(InferNames, {InfoA})]
                /\ DistinctNames(inventory)
    /\ correct_smt \in BOOLEAN
    /\ node_list = <<>>
    /\ stderr = 0
    /\ op = NoOp

\* node._get_free(priority) on a node of the cluster
FreeQuery ==
    /\ pc = "ready"
    /\ \E i \in 1..Len(node_list), priority \in Priorities :
          \E r \in {get_free(node_list[i], priority)} :
              op' = [name |-> "get_free", node |-> i, priority |-> priority,
                     raised |-> r.raised, value |-> r.value]
    /\ pc' = "queried"
    /\ UNCHANGED <<arg, ret, inventory, correct_smt, node_list, stderr>>

\* a == b, a < b, a > b and the same with the operands exchanged
Compare ==
    /\ pc = "ready"
    /\ \E i, j \in 1..Len(node_list) :
          LET a == node_list[i]
              b == node_list[j]
          IN  op' = [name |-> "compare", a |-> i, b |-> j,
                     eq |-> node_eq(a, b), lt |-> node_lt(a, b), gt |-> node_gt(a, b),
                     eq_rev |-> node_eq(b, a), lt_rev |-> node_lt(b, a),
                     gt_rev |-> node_gt(b, a)]
    /\ pc' = "compared"
    /\ UNCHANGED <<arg, ret, inventory, correct_smt, node_list, stderr>>

\* a < b, b < a, b < c and a < c on three nodes of the cluster
CompareChain ==
    /\ pc = "ready"
    /\ Len(node_list) = 3
    /\ \E i, j, k \in 1..Len(node_list) :
          op' = [name |-> "compare_chain", a |-> i, b |-> j, c |-> k,
                 lt_ab |-> node_lt(node_list[i], node_list[j]),
                 lt_ba |-> node_lt(node_list[j], node_list[i]),
                 lt_bc |-> node_lt(node_list[j], node_list[k]),
                 lt_ac |-> node_lt(node_list[i], node_list[k])]
    /\ pc' = "compared"
    /\ UNCHANGED <<arg, ret, inventory, correct_smt, node_list, stderr>>

NextNode == Construct \/ FreeQuery \/ Compare \/ CompareChain

SpecNode == InitNode /\ [][NextNode]_vars

----------------------------------------------------------------------------
(* Single calls of the two text functions of ClusterNode                   *)

\* the unit tokens of a memory expression, by scale
ByteTokens == { <<"b">> }
KiloTokens == { <<"k">>, <<"k", "b">>, <<"k", "i", "b">>, <<"k", "i", "l", "o">>,
                <<"k", "i", "l", "o", "b", "y", "t", "e">> }
MegaTokens == { <<"m">>, <<"m", "b">>, <<"m", "i", "b">>, <<"m", "e", "g", "a">>,
                <<"m", "e", "g", "a", "b", "y", "t", "e">> }
GigaTokens == { <<"g">>, <<"g", "b">>, <<"g", "i", "b">>, <<"g", "i", "g", "a">>,
                <<"g", "i", "g", "a", "b", "y", "t", "e">> }
UnitTokens == ByteTokens \cup KiloTokens \cup MegaTokens \cup GigaTokens

\* letter case of a token as written: lower, UPPER, Capitalized
LetterCases == {"lower", "upper", "capital"}

in_case(token, case) ==
    IF case = "upper" THEN str_upper(token)
    ELSE IF case = "capital" /\ token # <<>>
    THEN <<chr_upper(token[1])>> \o Tail(token)
    ELSE token

\* the memory values tried: multiples of half a KiB up to MaxMemSteps, and
\* values at and around one half and three halves of each scale
MaxMemSteps == 6

MemValues ==
    {512 * k : k \in 0..MaxMemSteps}
        \cup {1, 1023, 1025, 10240, 524288, 524289, 1572864,
              536870912, 536870913, 1073741824, 1610612736}

\* the raw flags of a node state, by bucket
OnlineTokens  == {text_free, text_jobbusy, text_online}
OfflineTokens == {text_down, text_offline, text_unknown, text_state_unknown}

\* the flag of an ambiguous state, and a flag that NodeState does not name
text_various == <<"v", "a", "r", "i", "o", "u", "s">>
text_busy    == <<"b", "u", "s", "y">>
OtherTokens  == {text_various, text_busy}

\* a flag as written: plain, <flag>, or <flag> with blanks around it
Decorations == {"plain", "angle", "padded"}

decorated(token, deco) ==
    IF deco = "angle" THEN <<"<">> \o token \o <<">">>
    ELSE IF deco = "padded" THEN <<" ", "<">> \o token \o <<">", " ">>
    ELSE token

\* the largest number of flags in a state expression
MaxFlags == 3

\* the samples of the statistics: up to MaxSampleLen values of 0..MaxStatValue,
\* and the sample [5]
MaxSampleLen == 4
MaxStatValue == 3

InitFn ==
    /\ pc = "call"
    /\ \/ \E v \in MemValues, unit \in UnitTokens \cup {<<>>}, case \in LetterCases :
             arg = [fn |-> "norm_mem_to_gibi", v |-> v, unit |-> unit,
                    memory |-> mem_text(v, in_case(unit, case))]
       \/ \E k \in 1..MaxFlags :
             \E flags \in [1..k -> [token : OnlineTokens \cup OfflineTokens \cup OtherTokens,
                                    deco : Decorations]] :
                arg = [fn |-> "parse_state", flags |-> flags,
                       state_expr |-> str_join([i \in 1..k |->
                                         decorated(flags[i].token, flags[i].deco)], ",")]
       \/ \E k \in 0..MaxSampleLen :
             \E sample \in [1..k -> 0..MaxStatValue] \cup {<<5>>} :
                arg = [fn |-> "compute_stats", rsrc_list |-> sample]
    /\ ret = NoValue
    /\ inventory = <<>>
    /\ correct_smt = FALSE
    /\ node_list = <<>>
    /\ stderr = 0
    /\ op = NoOp

\* self._norm_mem_to_gibi(norm_value)
CallNormMem ==
    /\ pc = "call"
    /\ arg.fn = "norm_mem_to_gibi"
    /\ ret' = norm_mem_to_gibi(arg.memory, TRUE)
    /\ pc' = "returned"
    /\ UNCHANGED <<arg, inventory, correct_smt, node_list, stderr, op>>

\* self._parse_state(node_infos["state"])
CallParseState ==
    /\ pc = "call"
    /\ arg.fn = "parse_state"
    /\ ret' = parse_state(arg.state_expr)
    /\ stderr' = stderr + ret'.warned
    /\ pc' = "returned"
    /\ UNCHANGED <<arg, inventory, correct_smt, node_list, op>>

\* self._compute_stats(rsrc_values)
CallComputeStats ==
    /\ pc = "call"
    /\ arg.fn = "compute_stats"
    /\ ret' = compute_stats(arg.rsrc_list)
    /\ pc' = "returned"
    /\ UNCHANGED <<arg, inventory, correct_smt, node_list, stderr, op>>

NextFn == CallNormMem \/ CallParseState \/ CallComputeStats

SpecFn == InitFn /\ [][NextFn]_vars

----------------------------------------------------------------------------
(* The reports in any order and any number: a cluster of two nodes, then   *)
(* listings, cluster summaries and queue summaries, each one at any time   *)

\* a variant in which a report sorts self.node_list itself by size
self_node_list_sorted(nodes) ==
    sorted(nodes, [by |-> "size", priority |-> "cpu"], TRUE)

\* self.node_list as a report leaves it: filter() and sorted() build new
\* lists from it, print() and the getters of a node only read
self_node_list(nodes) == nodes

FrameInfos == {InfoA, InfoBusyGpu, InfoFullCpu}

InitFrame ==
    /\ pc = "start"
    /\ arg = [cluster_name |-> text_hpc]
    /\ ret = [earlier |-> FALSE]
    /\ \E first, second \in Entries({IdA, IdB}, FrameInfos) :
          /\ first.name # second.name
          /\ first.info # second.info
          /\ inventory = <<first, second>>
    /\ correct_smt = FALSE
    /\ node_list = <<>>
    /\ stderr = 0
    /\ op = NoOp

\* what every report does to the run: an exception ends it; ret tells
\* whether a report came before this one
Reported(raised) ==
    /\ pc' = IF raised = "none" THEN "ready" ELSE "aborted"
    /\ ret' = [earlier |-> op.name # "init"]
    /\ node_list' = self_node_list(node_list)
    /\ UNCHANGED <<arg, inventory, correct_smt, stderr>>

\* cluster.print_node_list(...) at any time after the construction
AnyPrintNodeList ==
    /\ pc = "ready"
    /\ \E node_type \in NodeTypeArgs, node_state \in NodeStateArgs,
          sort_order \in SortOrders, sort_priority \in Priorities,
          top_n \in 0..MaxTopN :
          \E r \in {print_node_list(node_list, node_type, node_state,
                                    sort_order, sort_priority, top_n)} :
              /\ op' = [name |-> "print_node_list", node_type |-> node_type,
                        node_state |-> node_state, sort_order |-> sort_order,
                        sort_priority |-> sort_priority, top_n |-> top_n,
                        raised |-> r.raised, printed |-> r.printed]
              /\ Reported(r.raised)

\* print(cluster) at any time after the construction
AnySummary ==
    /\ pc = "ready"
    /\ \E r \in {cluster_repr(node_list)} :
           /\ op' = [name |-> "repr", raised |-> r.raised, report |-> r]
           /\ Reported(r.raised)

\* cluster.summarize_queue_resources(...) at any time after the construction
AnyQueueSummary ==
    /\ pc = "ready"
    /\ \E node_state \in NodeStateArgs, rsrc_type \in RsrcTypes :
          \E r \in {summarize_queue_resources(node_list, node_state, rsrc_type)} :
              /\ op' = [name |-> "queue_resources", node_state |-> node_state,
                        rsrc_type |-> rsrc_type, raised |-> r.raised,
                        blocks |-> r.blocks]
              /\ Reported(r.raised)

NextFrame == Construct \/ AnyPrintNodeList \/ AnySummary \/ AnyQueueSummary

SpecFrame == InitFrame /\ [][NextFrame]_vars

----------------------------------------------------------------------------
(* Properties                                                              *)

\* a node is short of resources: fewer than 1 core or fewer than 2 GiB remain
Starved(node) ==
    node.rsrc_remain["cpu_cores"] < 1 \/ node.rsrc_remain["memory_gb"] < 2

NodeById(id) == node_list[CHOOSE i \in 1..Len(node_list) : node_list[i].id = id]

IsPrefix(p, s) == Len(p) <= Len(s) /\ \A i \in 1..Len(p) : p[i] = s[i]

Min(a, b) == IF a <= b THEN a ELSE b

\* C1: for every constructed node and every priority, a node with fewer than
\* 1 remaining core or fewer than 2 GiB of remaining memory answers the free
\* query with exactly (-1, -1, -1).
C1_StarvedFreeTriple ==
    (op.name = "get_free" /\ Starved(node_list[op.node]))
        => (op.raised = "none" /\ op.value = <<-1, -1, -1>>)

\* C2: every constructed node, with hyperthread correction on or off, has a
\* load estimate between 0 and 1.
C2_LoadEstimateInUnitInterval ==
    \A i \in 1..Len(node_list) :
        0 <= node_list[i].load_estimate /\ node_list[i].load_estimate <= LoadScale

\* C3: for the example inventory of node A and node B the cluster summary
\* completes and reports 2 nodes, 1 online, 1 cpu node, 1 gpu node and 50.0 %
\* of the nodes online.
C3_ExampleSummary ==
    (op.name = "repr" /\ inventory = ExampleInventory)
        => /\ op.raised = "none"
           /\ op.report.total_nodes = 2
           /\ op.report.online_nodes = 1
           /\ op.report.cpu_nodes = 1
           /\ op.report.gpu_nodes = 1
           /\ op.report.pct_nodes = 50 * PercentScale

\* the percentage of part in whole, in tenths of a percent, rounded
ShareOf(part, whole) == round_half_even(part * 100 * PercentScale, whole)

\* C4: each of the six percentages of a cluster summary is the online part of
\* a quantity over the total of the same quantity; the GPU node percentage is
\* the online GPU nodes over all GPU nodes, hence below 100 when a GPU node is
\* not online.
C4_PercentagesOverTotals ==
    (op.name = "repr" /\ op.raised = "none")
        => LET r == op.report
           IN  /\ r.pct_nodes = ShareOf(r.online_nodes, r.total_nodes)
               /\ r.pct_cpu_nodes = ShareOf(r.online_cpu_nodes, r.cpu_nodes)
               /\ r.pct_gpu_nodes = ShareOf(r.online_gpu_nodes, r.gpu_nodes)
               /\ r.pct_cpu_cores = ShareOf(r.online_cpu_cores, r.total_cpu)
               /\ r.pct_memory = ShareOf(r.online_memory, r.total_memory)
               /\ r.pct_gpu_boards = ShareOf(r.online_gpu_boards, r.total_gpu)
               /\ (r.online_gpu_nodes < r.gpu_nodes => r.pct_gpu_nodes < 100 * PercentScale)

FlagTokens(flags) == {flags[i].token : i \in 1..Len(flags)}

\* what the classifier does with the flags of the two buckets: an expression
\* made of online flags only, or of offline flags only, decorated with <> or
\* not, is classified as that bucket; one made of flags of both buckets is
\* classified invalid with one diagnostic written; the classifier returns.
StateBucketsOnLexicon ==
    (pc = "returned" /\ arg.fn = "parse_state"
        /\ FlagTokens(arg.flags) \subseteq OnlineTokens \cup OfflineTokens)
        => LET tokens == FlagTokens(arg.flags)
           IN  /\ ret.raised = "none"
               /\ tokens \subseteq OnlineTokens => ret.state.name = "online"
               /\ tokens \subseteq OfflineTokens => ret.state.name = "offline"
               /\ (tokens \cap OnlineTokens # {} /\ tokens \cap OfflineTokens # {})
                      => (ret.state.name = "invalid" /\ ret.warned = 1 /\ stderr = 1)

\* C5: a state expression whose flags all belong to the online bucket, or all
\* to the offline bucket, decorated with <> or not, is classified as that
\* bucket; an expression with at least one flag of each bucket, whatever else
\* it holds, is classified invalid with one diagnostic written, and the
\* classifier returns, so that the construction of the node goes on.
C5_StateBuckets ==
    (pc = "returned" /\ arg.fn = "parse_state")
        => LET tokens == FlagTokens(arg.flags)
           IN  /\ tokens \subseteq OnlineTokens
                      => (ret.raised = "none" /\ ret.state.name = "online")
               /\ tokens \subseteq OfflineTokens
                      => (ret.raised = "none" /\ ret.state.name = "offline")
               /\ (tokens \cap OnlineTokens # {} /\ tokens \cap OfflineTokens # {})
                      => /\ ret.raised = "none"
                         /\ ret.state.name = "invalid"
                         /\ ret.warned = 1
                         /\ stderr = 1

\* the power of 1024 that the claim gives for a unit token; none means bytes
UnitExponent(unit) ==
    IF unit \in GigaTokens THEN 0
    ELSE IF unit \in MegaTokens THEN 1
    ELSE IF unit \in KiloTokens THEN 2
    ELSE 3

\* r is v / d rounded to a nearest integer
IsNearest(r, v, d) ==
    LET q   == v \div d
        rem == v % d
    IN  (r = q /\ 2 * rem <= d) \/ (r = q + 1 /\ 2 * rem >= d)

\* C6: in blunt mode the text of a non-negative integer V immediately followed
\* by a unit token, in any letter case, or by nothing, normalizes to V / 1024^e
\* rounded to the nearest integer, e being 3 for bytes and no unit, 2 for kilo,
\* 1 for mega and 0 for giga tokens; 10240m gives 10.
C6_UnitNormalization ==
    (pc = "returned" /\ arg.fn = "norm_mem_to_gibi")
        => /\ ret.raised = "none"
           /\ ret.scale = 1
           /\ IsNearest(ret.value, arg.v, Pow(1024, UnitExponent(arg.unit)))
           /\ arg.memory = <<"1", "0", "2", "4", "0", "m">> => ret.value = 10

\* C6 happens: an upper-case mega token on a value that is not a whole GiB
C6_Witness ==
    /\ pc = "returned"
    /\ arg.fn = "norm_mem_to_gibi"
    /\ arg.memory = <<"3", "0", "7", "2", "M", "I", "B">>
    /\ ret.value = 3

\* the predicates of a listing on the class and the state of a node
TypeSelects(node_type, node) == node_type = "all" \/ node.type = node_type
StateSelects(node_state, node) == node_state = "all" \/ node.state.name = node_state

SelectedIds(node_type, node_state) ==
    { node_list[i].id : i \in { k \in 1..Len(node_list) :
          /\ TypeSelects(node_type, node_list[k])
          /\ StateSelects(node_state, node_list[k]) } }

\* what every listing sorted by name does, also one that print(node) ends
\* early: it prints nodes that satisfy both the class and the state predicate,
\* each once, in ascending order of identity and without passing one over; a
\* listing that returns, with no row cap, has printed every such node.
ListingByNameUpToAbort ==
    (op.name = "print_node_list" /\ op.sort_order = "name")
        => LET P   == op.printed
               sel == SelectedIds(op.node_type, op.node_state)
           IN  /\ \A i \in 1..Len(P) : P[i] \in sel
               /\ \A i \in 1..(Len(P) - 1) : str_less(P[i], P[i + 1])
               /\ \A i \in 1..Len(P) : \A id \in sel : str_less(id, P[i]) => id \in Range(P)
               /\ (op.raised = "none" /\ op.top_n = 0) => Range(P) = sel

\* C7: a listing sorted by name, with no row cap, prints exactly the nodes
\* that satisfy both the class and the state predicate, each once, in ascending
\* order of identity; for the example inventory with node_state=all and
\* node_type=all it prints A then B.
C7_ListingByName ==
    (op.name = "print_node_list" /\ op.sort_order = "name" /\ op.top_n = 0)
        => LET P   == op.printed
               sel == SelectedIds(op.node_type, op.node_state)
           IN  /\ Range(P) = sel
               /\ \A i \in 1..(Len(P) - 1) : str_less(P[i], P[i + 1])
               /\ (/\ inventory = ExampleInventory
                   /\ op.node_type = "all"
                   /\ op.node_state = "all") => P = <<IdA, IdB>>

\* the ids of the nodes that a listing filters and sorts, in sorted order
ShowIds(node_type, node_state, sort_order, sort_priority) ==
    LET f1 == SelectSeq(node_list, LAMBDA n : state_filter(node_state, n))
        f2 == SelectSeq(f1, LAMBDA n : type_filter(node_type, n))
        s  == sorted(f2, [by |-> sort_order, priority |-> sort_priority],
                     sort_order # "name")
    IN  [i \in 1..Len(s) |-> s[i].id]

\* what every listing does with its row cap, also one that print(node) ends
\* early: it prints the first of the rows that the cap allows, and all of them
\* when it returns.
RowCapUpToAbort ==
    (op.name = "print_node_list" /\ op.sort_order \in SortOrders)
        => LET show == ShowIds(op.node_type, op.node_state, op.sort_order, op.sort_priority)
               rows == IF op.top_n = 0 THEN show
                       ELSE SubSeq(show, 1, Min(op.top_n, Len(show)))
           IN  /\ IsPrefix(op.printed, rows)
               /\ op.raised = "none" => op.printed = rows

\* C8: with top_n = 0 a listing prints every filtered node, with top_n = N > 0
\* exactly the first min(N, number of filtered nodes) nodes of the sorted
\* sequence, in that order.
C8_RowCap ==
    (op.name = "print_node_list" /\ op.sort_order \in SortOrders)
        => LET show == ShowIds(op.node_type, op.node_state, op.sort_order, op.sort_priority)
               rows == IF op.top_n = 0 THEN show
                       ELSE SubSeq(show, 1, Min(op.top_n, Len(show)))
           IN  op.printed = rows

\* C9: in a listing sorted by free resources, for every priority, no node
\* short of resources is printed before a node that is not.
C9_StarvedNodesLast ==
    (op.name = "print_node_list" /\ op.sort_order = "free")
        => \A i, j \in 1..Len(op.printed) :
               i < j => ~(/\ Starved(NodeById(op.printed[i]))
                          /\ ~Starved(NodeById(op.printed[j])))

\* the machine capacity of a node
Capacity(node) ==
    [cores  |-> node.rsrc_machine["cpu_cores"].v,
     memory |-> node.rsrc_machine["memory_gb"].v,
     boards |-> node.rsrc_machine["gpu_boards"].v]

\* C10: the comparison of two nodes is decided by their machine capacity
\* alone: a == b iff cores, memory and boards are equal; a < b iff a has fewer
\* cores, or less memory and no more boards; a > b iff a has more cores, or
\* more memory and no fewer boards; a < b holds exactly when b > a holds.
C10_SizeComparison ==
    op.name = "compare"
        => LET a == Capacity(node_list[op.a])
               b == Capacity(node_list[op.b])
           IN  /\ op.eq <=> (a.cores = b.cores /\ a.memory = b.memory /\ a.boards = b.boards)
               /\ op.lt <=> (a.cores < b.cores \/ (a.memory < b.memory /\ a.boards <= b.boards))
               /\ op.gt <=> (a.cores > b.cores \/ (a.memory > b.memory /\ a.boards >= b.boards))
               /\ op.lt <=> op.gt_rev
               /\ op.gt <=> op.lt_rev

\* C10 happens: two nodes of equal capacity, of which only one has resources
\* assigned, compare equal
C10_Witness ==
    /\ op.name = "compare"
    /\ Len(node_list) = 2
    /\ op.a = 1
    /\ op.b = 2
    /\ op.eq
    /\ node_list[1].rsrc_remain # node_list[2].rsrc_remain

\* the number of elements of a sample that satisfy a test
CountOf(data, Test(_)) == Cardinality({i \in 1..Len(data) : Test(data[i])})

\* the k-th smallest element of a sample
KthSmallest(data, k) ==
    CHOOSE v \in Range(data) :
        /\ CountOf(data, LAMBDA x : x < v) < k
        /\ k <= CountOf(data, LAMBDA x : x <= v)

\* the index at which a value is first met in a sample
FirstIndex(data, v) == CHOOSE i \in 1..Len(data) : data[i] = v /\ \A j \in 1..(i - 1) : data[j] # v

\* C11: for every non-empty sample of non-negative integers the statistics
\* are size = the length, min = the smallest value, median = the middle value
\* (for an even length the mid-point of the two middle values, truncated to an
\* integer), mode = the most frequent value, among ties the one met first, and
\* max = the largest value; [5] gives (1,5,5,5,5), [1,2,2,3] gives (4,1,2,2,3).
C11_ComputeStats ==
    (pc = "returned" /\ arg.fn = "compute_stats" /\ arg.rsrc_list # <<>>)
        => LET data == arg.rsrc_list
               n    == Len(data)
               freq(v) == CountOf(data, LAMBDA x : x = v)
           IN  /\ ret.raised = "none"
               /\ ret.size = n
               /\ ret.min \in Range(data) /\ \A i \in 1..n : ret.min <= data[i]
               /\ ret.max \in Range(data) /\ \A i \in 1..n : ret.max >= data[i]
               /\ n % 2 = 1 => ret.median = KthSmallest(data, (n + 1) \div 2)
               /\ n % 2 = 0 => ret.median = (KthSmallest(data, n \div 2)
                                               + KthSmallest(data, (n \div 2) + 1)) \div 2
               /\ ret.mode \in Range(data)
               /\ \A v \in Range(data) :
                      \/ freq(v) < freq(ret.mode)
                      \/ /\ freq(v) = freq(ret.mode)
                         /\ FirstIndex(data, ret.mode) <= FirstIndex(data, v)
               /\ data = <<5>> => <<ret.size, ret.min, ret.median, ret.mode, ret.max>>
                                      = <<1, 5, 5, 5, 5>>
               /\ data = <<1, 2, 2, 3>>
                      => <<ret.size, ret.min, ret.median, ret.mode, ret.max>>
                             = <<4, 1, 2, 2, 3>>

\* C11 happens: an even sample with a tie for the most frequent value whose
\* mid-point is not an integer
C11_Witness ==
    /\ pc = "returned"
    /\ arg.fn = "compute_stats"
    /\ arg.rsrc_list = <<3, 0, 0, 3>>
    /\ ret.median = 1
    /\ ret.mode = 3

\* C12: every constructed node of class cpu has no machine GPU boards: a
\* record that reports GPU boards gives a gpu node or no node at all.
C12_CpuNodesHaveNoBoards ==
    \A i \in 1..Len(node_list) :
        node_list[i].type = "cpu" => node_list[i].rsrc_machine["gpu_boards"].v = 0

\* the raw key under which the scheduler reports a numeric resource
RawKey(rsrc_key) ==
    IF rsrc_key = "cpu_cores" THEN "ncpus"
    ELSE IF rsrc_key = "gpu_boards" THEN "ngpus"
    ELSE "mem"

\* a raw resource map reports the kind of resource of a numeric key
Reports(resource_info, rsrc_key) ==
    \E i \in 1..Len(resource_info) : resource_info[i][1] = RawKey(rsrc_key)

\* node_list[i] was built from inventory[i]: a construction gives all the
\* nodes of the inventory or none
Built == Len(node_list) = Len(inventory) /\ node_list # <<>>

\* C13 as claimed: after construction the used record of a node holds a
\* numeric key only if resources_assigned reported that kind of resource.
C13_UsedKeysOnlyIfReported ==
    Built => \A i \in 1..Len(node_list) : \A k \in minimal_rsrc_set :
                 k \in DOMAIN node_list[i].rsrc_used
                     => Reports(inventory[i].info.resources_assigned, k)

\* C13 amended: after construction, with hyperthread correction on or off,
\* the used record of a node holds each of the numeric keys cpu_cores,
\* gpu_boards and memory_gb, and a key whose kind resources_assigned did not
\* report holds 0.
C13_UsedKeysDefaulted ==
    Built => \A i \in 1..Len(node_list) : \A k \in minimal_rsrc_set :
                 /\ k \in DOMAIN node_list[i].rsrc_used
                 /\ ~Reports(inventory[i].info.resources_assigned, k)
                        => node_list[i].rsrc_used[k] = IntVal(0)

\* C13 happens: without hyperthread correction, a node with cores assigned
\* and no boards and no memory assigned
C13_Witness ==
    /\ Built
    /\ ~correct_smt
    /\ Reports(inventory[1].info.resources_assigned, "cpu_cores")
    /\ ~Reports(inventory[1].info.resources_assigned, "gpu_boards")
    /\ ~Reports(inventory[1].info.resources_assigned, "memory_gb")
    /\ node_list[1].rsrc_used["cpu_cores"].v > 0
    /\ node_list[1].rsrc_used["gpu_boards"].v = 0

\* the number of nodes of the cluster that satisfy a test
NodeCount(Test(_)) == Cardinality({i \in 1..Len(node_list) : Test(node_list[i])})

\* the total of a numeric machine resource over the nodes of the cluster
RECURSIVE MachineTotal(_, _)
MachineTotal(i, key) ==
    IF i = 0 THEN 0 ELSE node_list[i].rsrc_machine[key].v + MachineTotal(i - 1, key)

\* some percentage of the summary has a denominator of zero: a total of the
\* report, or the online GPU nodes that the GPU node percentage is divided by
ZeroDenominator ==
    \/ Len(node_list) = 0
    \/ NodeCount(LAMBDA n : n.type = "cpu") = 0
    \/ NodeCount(LAMBDA n : n.type = "gpu") = 0
    \/ NodeCount(LAMBDA n : n.type = "gpu" /\ n.state.name = "online") = 0
    \/ MachineTotal(Len(node_list), "cpu_cores") = 0
    \/ MachineTotal(Len(node_list), "memory_gb") = 0
    \/ MachineTotal(Len(node_list), "gpu_boards") = 0

\* C14: whenever the denominator of a percentage of the cluster summary is
\* zero, the summary fails with a division by zero and returns no report text.
C14_ZeroDenominatorFails ==
    (op.name = "repr" /\ ZeroDenominator)
        => (op.raised = "ZeroDivisionError" /\ op.report = NoValue)

\* C14 happens: the summary of a cluster of online cpu nodes, none of class
\* gpu, failed
C14_Witness ==
    /\ op.name = "repr"
    /\ Len(node_list) = 2
    /\ \A i \in 1..2 : node_list[i].type = "cpu" /\ node_list[i].state.name = "online"
    /\ MachineTotal(Len(node_list), "cpu_cores") > 0
    /\ op.raised = "ZeroDivisionError"
    /\ op.report = NoValue

\* the queue membership of a node, empty for a node that has none
Members(node) == IF node.queue_list.defined THEN Range(node.queue_list.value) ELSE {}

\* the state-filtered nodes of the cluster that belong to a queue, in the
\* order of the node list
QueueNodes(qlist, node_state) ==
    SelectSeq(node_list, LAMBDA n : StateSelects(node_state, n) /\ qlist \in Members(n))

\* the queue tags of the state-filtered nodes
QueueTags(node_state) ==
    UNION { Members(node_list[i]) :
              i \in { k \in 1..Len(node_list) : StateSelects(node_state, node_list[k]) } }

\* the triple that a node contributes to the samples of its queues
ChosenTriple(node, rsrc_type) ==
    IF rsrc_type = "machine"
    THEN <<node.rsrc_machine["cpu_cores"].v, node.rsrc_machine["memory_gb"].v,
           node.rsrc_machine["gpu_boards"].v>>
    ELSE <<node.rsrc_remain["cpu_cores"], node.rsrc_remain["memory_gb"],
           node.rsrc_remain["gpu_boards"]>>

\* the blocks of a queue summary are those of the queue tags of the filtered
\* nodes, in ascending order of tag; each block counts the filtered nodes of
\* its queue and holds one value per dimension for each of them
QueueBlocksRight(blocks, node_state, rsrc_type) ==
    /\ {blocks[i].qlist : i \in 1..Len(blocks)} = QueueTags(node_state)
    /\ \A i \in 1..(Len(blocks) - 1) : str_less(blocks[i].qlist, blocks[i + 1].qlist)
    /\ \A i \in 1..Len(blocks) :
          /\ blocks[i].nodes = Len(QueueNodes(blocks[i].qlist, node_state))
          /\ blocks[i].values.cpu =
                [j \in 1..Len(QueueNodes(blocks[i].qlist, node_state)) |->
                    ChosenTriple(QueueNodes(blocks[i].qlist, node_state)[j], rsrc_type)[1]]
          /\ blocks[i].values.mem =
                [j \in 1..Len(QueueNodes(blocks[i].qlist, node_state)) |->
                    ChosenTriple(QueueNodes(blocks[i].qlist, node_state)[j], rsrc_type)[2]]
          /\ blocks[i].values.gpu =
                [j \in 1..Len(QueueNodes(blocks[i].qlist, node_state)) |->
                    ChosenTriple(QueueNodes(blocks[i].qlist, node_state)[j], rsrc_type)[3]]

\* what every queue summary that returns has done
QueueSummaryUpToAbort ==
    (op.name = "queue_resources" /\ op.raised = "none")
        => QueueBlocksRight(op.blocks, op.node_state, op.rsrc_type)

\* C15: a queue resource summary reports, for every queue tag of the
\* state-filtered nodes, a block whose node count is the number of filtered
\* nodes that belong to the queue and whose samples hold one value per
\* dimension for each of them (the machine triple, or the remaining triple for
\* rsrc_type=free), the blocks in ascending order of queue tag.
C15_QueueSummary ==
    op.name = "queue_resources"
        => /\ op.raised = "none"
           /\ QueueBlocksRight(op.blocks, op.node_state, op.rsrc_type)

\* C16: the state expression <various> is classified as the state various,
\* which is not the state online, with one diagnostic written; the online
\* state filter does not select a node of that state.
C16_VariousIsNotOnline ==
    (pc = "returned" /\ arg.fn = "parse_state" /\ Len(arg.flags) = 1
        /\ arg.flags[1].token = text_various /\ arg.flags[1].deco = "angle")
        => /\ ret.raised = "none"
           /\ ret.state # NodeState_online
           /\ stderr = 1
           /\ ~state_filter("online", [state |-> ret.state])

\* C17: the classifier returns exactly one NodeState for every state
\* expression, also one with a flag that the lexicon does not have, which is
\* classified invalid; it never raises.
C17_ClassifierTotal ==
    (pc = "returned" /\ arg.fn = "parse_state")
        => /\ ret.raised = "none"
           /\ ret.state \in {NodeState_online, NodeState_offline, NodeState_invalid}
           /\ FlagTokens(arg.flags) \cap {text_busy} # {} => ret.state = NodeState_invalid

\* what the classifier does with the flags that NodeState names: it returns
\* one of the three members
ClassifierTotalOnLexicon ==
    (pc = "returned" /\ arg.fn = "parse_state" /\ text_busy \notin FlagTokens(arg.flags))
        => /\ ret.raised = "none"
           /\ ret.state \in {NodeState_online, NodeState_offline, NodeState_invalid}

\* the value that a raw resource map holds under a key
RawValue(resource_info, key) ==
    resource_info[CHOOSE i \in 1..Len(resource_info) : resource_info[i][1] = key][2]

\* a raw resource map names the accelerator of the node
NamesAccelerator(resource_info) ==
    \E i \in 1..Len(resource_info) : resource_info[i][1] = "accelerator_model"

\* the text of a value without the blanks around it and in lower case
Normalized(value) == str_lower(str_strip(value.s, Whitespace))

\* C18: a node whose accelerator_model, without the blanks around it and in
\* lower case, is "none" has the class cpu and the gpu_model "igpu"; a node
\* with any other accelerator_model has the class gpu and the normalized text
\* as its gpu_model.
C18_NodeClassFromAccelerator ==
    Built => \A i \in 1..Len(node_list) :
                 NamesAccelerator(inventory[i].info.resources_available)
                     => IF Normalized(RawValue(inventory[i].info.resources_available,
                                               "accelerator_model")) = text_none
                        THEN /\ node_list[i].type = "cpu"
                             /\ node_list[i].rsrc_machine["gpu_model"] = StrVal(text_igpu)
                        ELSE /\ node_list[i].type = "gpu"
                             /\ node_list[i].rsrc_machine["gpu_model"]
                                   = StrVal(Normalized(RawValue(
                                         inventory[i].info.resources_available,
                                         "accelerator_model")))

\* what the class detection does with a value written exactly as none, or
\* with a value that is not none however it is written
NodeClassFromExactAccelerator ==
    Built => \A i \in 1..Len(node_list) :
                 (/\ NamesAccelerator(inventory[i].info.resources_available)
                  /\ RawValue(inventory[i].info.resources_available, "accelerator_model")
                         # StrVal(text_none_noisy))
                     => IF RawValue(inventory[i].info.resources_available,
                                    "accelerator_model") = StrVal(text_none)
                        THEN /\ node_list[i].type = "cpu"
                             /\ node_list[i].rsrc_machine["gpu_model"] = StrVal(text_igpu)
                        ELSE /\ node_list[i].type = "gpu"
                             /\ node_list[i].rsrc_machine["gpu_model"]
                                   = StrVal(Normalized(RawValue(
                                         inventory[i].info.resources_available,
                                         "accelerator_model")))

\* the cores that the record built from a raw resource map should hold
ExpectedCores(resource_info) ==
    IF correct_smt THEN RawValue(resource_info, "ncpus").v \div 2
    ELSE RawValue(resource_info, "ncpus").v

\* C19: the cpu_cores of the machine record and of the used record of a node
\* are the reported ncpus, integer-divided by 2 when hyperthread correction is
\* requested and as reported when it is not.
C19_CoresHalvedInBothRecords ==
    Built => \A i \in 1..Len(node_list) :
                 /\ Reports(inventory[i].info.resources_available, "cpu_cores")
                        => node_list[i].rsrc_machine["cpu_cores"].v
                               = ExpectedCores(inventory[i].info.resources_available)
                 /\ Reports(inventory[i].info.resources_assigned, "cpu_cores")
                        => node_list[i].rsrc_used["cpu_cores"].v
                               = ExpectedCores(inventory[i].info.resources_assigned)

\* what the construction does with the cores: the machine record holds them
\* as claimed, the used record holds them as reported
CoresHalvedInMachineRecord ==
    Built => \A i \in 1..Len(node_list) :
                 /\ Reports(inventory[i].info.resources_available, "cpu_cores")
                        => node_list[i].rsrc_machine["cpu_cores"].v
                               = ExpectedCores(inventory[i].info.resources_available)
                 /\ Reports(inventory[i].info.resources_assigned, "cpu_cores")
                        => node_list[i].rsrc_used["cpu_cores"].v
                               = RawValue(inventory[i].info.resources_assigned, "ncpus").v

\* the capacity of a node in a numeric dimension, and what is used of it
CapacityOf(node, k) == node.rsrc_machine[k].v
UsedOf(node, k)     == node.rsrc_used[k].v

\* max(0, machine - used) in a numeric dimension
ClampedRemainder(node, k) ==
    IF CapacityOf(node, k) > UsedOf(node, k)
    THEN CapacityOf(node, k) - UsedOf(node, k) ELSE 0

\* the numeric dimensions of a node with nonzero capacity
NonZeroDims(node) == {k \in minimal_rsrc_set : CapacityOf(node, k) # 0}

\* the sum of used/capacity over the dimensions with nonzero capacity, as a
\* fraction <<numerator, denominator>>; a dimension with zero capacity adds 0/1
RatioNum(node, k) == IF CapacityOf(node, k) = 0 THEN 0 ELSE UsedOf(node, k)
RatioDen(node, k) == IF CapacityOf(node, k) = 0 THEN 1 ELSE CapacityOf(node, k)
SumOfRatios(node) ==
    << RatioNum(node, "cpu_cores") * RatioDen(node, "gpu_boards") * RatioDen(node, "memory_gb")
       + RatioNum(node, "gpu_boards") * RatioDen(node, "cpu_cores") * RatioDen(node, "memory_gb")
       + RatioNum(node, "memory_gb") * RatioDen(node, "cpu_cores") * RatioDen(node, "gpu_boards"),
       RatioDen(node, "cpu_cores") * RatioDen(node, "gpu_boards") * RatioDen(node, "memory_gb") >>

\* the load estimate is the mean of the ratios of the dimensions with nonzero
\* capacity, in hundredths
LoadMeanOverNonZeroDims(node) ==
    node.load_estimate
        = round_half_even(LoadScale * SumOfRatios(node)[1],
                          SumOfRatios(node)[2] * Cardinality(NonZeroDims(node)))

\* C20 as claimed: the remaining record of a node holds max(0, machine - used)
\* for exactly the numeric dimensions with nonzero capacity; a dimension with
\* zero capacity has no ratio in the load mean and no entry in the record.
C20_RemainingOnlyForNonZeroDims ==
    Built => \A i \in 1..Len(node_list) :
                 /\ DOMAIN node_list[i].rsrc_remain = NonZeroDims(node_list[i])
                 /\ \A k \in DOMAIN node_list[i].rsrc_remain :
                        node_list[i].rsrc_remain[k] = ClampedRemainder(node_list[i], k)
                 /\ LoadMeanOverNonZeroDims(node_list[i])

\* C20 amended: the remaining record of a node holds max(0, machine - used)
\* for every numeric dimension, which is 0 for a dimension with zero capacity;
\* a dimension with zero capacity has no ratio in the load mean.
C20_RemainingForEveryDim ==
    Built => \A i \in 1..Len(node_list) :
                 /\ DOMAIN node_list[i].rsrc_remain = minimal_rsrc_set
                 /\ \A k \in minimal_rsrc_set :
                        node_list[i].rsrc_remain[k] = ClampedRemainder(node_list[i], k)
                 /\ \A k \in minimal_rsrc_set \ NonZeroDims(node_list[i]) :
                        node_list[i].rsrc_remain[k] = 0
                 /\ LoadMeanOverNonZeroDims(node_list[i])

\* C20 happens: a node without boards, with some of its cores and of its
\* memory used, has 0 boards remaining and a load that is the mean of two ratios
C20_Witness ==
    /\ Built
    /\ CapacityOf(node_list[1], "gpu_boards") = 0
    /\ node_list[1].rsrc_remain["gpu_boards"] = 0
    /\ CapacityOf(node_list[1], "cpu_cores") = 8
    /\ UsedOf(node_list[1], "cpu_cores") = 1
    /\ node_list[1].rsrc_remain["cpu_cores"] = 7
    /\ CapacityOf(node_list[1], "memory_gb") = 4
    /\ UsedOf(node_list[1], "memory_gb") = 3
    /\ node_list[1].load_estimate = 44

\* a raw resource map names the host of the node
NamesHost(resource_info) ==
    \E i \in 1..Len(resource_info) : resource_info[i][1] = "host"

\* the host that the only record of the inventory names
HostOfRecord == RawValue(inventory[1].info.resources_available, "host").s

\* C21: a node whose record names its own identity as host, capital letters
\* or not, is constructed; a node whose record names another host is not, the
\* construction ends with the consistency error.
C21_HostConsistency ==
    (op.name = "init" /\ Len(inventory) = 1
        /\ NamesHost(inventory[1].info.resources_available))
        => IF HostOfRecord = inventory[1].name
           THEN op.raised = "none" /\ Len(node_list) = 1
           ELSE op.raised = "AssertionError" /\ node_list = <<>>

\* what the host check does: it accepts the host that is the identity of the
\* node in lower case, and only that one
HostConsistencyInLowerCase ==
    (op.name = "init" /\ Len(inventory) = 1
        /\ NamesHost(inventory[1].info.resources_available))
        => IF str_lower(HostOfRecord) = inventory[1].name
           THEN op.raised = "none" /\ Len(node_list) = 1
           ELSE op.raised = "AssertionError" /\ node_list = <<>>

\* a text occurs in another as a contiguous block
Occurs(g, s) == \E i \in 0..(Len(s) - Len(g)) : SubSeq(s, i + 1, i + Len(g)) = g

\* the non-empty contiguous blocks of a text
Blocks(s) == {SubSeq(s, i, j) : i \in 1..Len(s), j \in 1..Len(s)} \ {<<>>}

\* g is a longest common contiguous substring of a and b
IsLongestCommon(g, a, b) ==
    /\ g \in Blocks(a)
    /\ Occurs(g, b)
    /\ \A h \in Blocks(a) : Occurs(h, b) => Len(h) <= Len(g)

\* g has the greatest count of a tally
MostTallied(g, tally) ==
    \E i \in 1..Len(tally) :
        /\ tally[i][1] = g
        /\ \A j \in 1..Len(tally) : tally[j][2] <= tally[i][2]

\* a cluster whose name was asked to be inferred, with its nodes constructed
\* and a name inferred
NameInferred ==
    /\ op.name = "init"
    /\ arg.cluster_name = text_infer
    /\ op.nodes_built
    /\ op.raised = "none"

\* what the inference does: each guess has the greatest count of the tally of
\* its turn, and the name is one of the two guesses
GuessesMostTallied ==
    NameInferred
        => /\ \A t \in 1..2 : MostTallied(op.guesses[t], op.tallies[t])
           /\ op.cluster_name \in Range(op.guesses)

\* C22: each of the two guesses is a longest common contiguous substring of
\* the identity of the chosen node and the identity of some other node, and
\* the one tallied most often; the inferred name is one of the guesses.
C22_GuessIsLongestCommonSubstring ==
    NameInferred
        => /\ \A t \in 1..2 :
                 /\ \E i \in (1..Len(inventory)) \ {op.chosen[t]} :
                        IsLongestCommon(op.guesses[t], inventory[op.chosen[t]].name,
                                        inventory[i].name)
                 /\ MostTallied(op.guesses[t], op.tallies[t])
           /\ op.cluster_name \in Range(op.guesses)

\* the node of the inventory at a position shares a character with another
SharesWithAnother(c) ==
    \E i \in (1..Len(inventory)) \ {c} :
        Range(inventory[i].name) \cap Range(inventory[c].name) # {}

\* C30: with the name sentinel "infer", a cluster is constructed, with a
\* name, only when each of the two chosen nodes shares a character with
\* another node; an inventory of fewer than two nodes, or a chosen node that
\* shares no character with any other, ends the construction with an error
\* and no cluster.
C30_InferenceNeedsSharedCharacter ==
    (op.name = "init" /\ arg.cluster_name = text_infer /\ op.nodes_built)
        => /\ op.raised = "none"
                  => /\ pc = "ready"
                     /\ Len(node_list) = Len(inventory)
                     /\ Len(op.chosen) = 2
                     /\ \A t \in 1..2 : SharesWithAnother(op.chosen[t])
           /\ op.raised # "none"
                  => /\ op.raised = "IndexError"
                     /\ pc = "aborted"
                     /\ node_list = <<>>
                     /\ \/ inventory = <<>>
                        \/ ~SharesWithAnother(op.chosen[Len(op.chosen)])
           /\ Len(inventory) < 2 => op.raised # "none"

\* C30 happens: of three nodes the first one chosen shares a character with
\* another and the second one chosen shares none, and no cluster is there
C30_Witness ==
    /\ op.name = "init"
    /\ arg.cluster_name = text_infer
    /\ op.nodes_built
    /\ Len(inventory) = 3
    /\ op.raised = "IndexError"
    /\ Len(op.chosen) = 2
    /\ SharesWithAnother(op.chosen[1])
    /\ ~SharesWithAnother(op.chosen[2])
    /\ node_list = <<>>

\* C23: the size comparator is no strict order. Whenever a has fewer cores
\* than b and b has less memory than a and no more boards, both a < b and
\* b < a hold; whenever a has fewer cores than b, b has less memory than c and
\* no more boards, and c has no more cores and no more memory than a, a < b
\* and b < c hold and a < c does not.
C23_ComparatorNotStrictOrder ==
    op.name = "compare_chain"
        => LET a == Capacity(node_list[op.a])
               b == Capacity(node_list[op.b])
               c == Capacity(node_list[op.c])
           IN  /\ (a.cores < b.cores /\ b.memory < a.memory /\ b.boards <= a.boards)
                      => (op.lt_ab /\ op.lt_ba)
               /\ (/\ a.cores < b.cores
                   /\ b.memory < c.memory /\ b.boards <= c.boards
                   /\ c.cores <= a.cores /\ c.memory <= a.memory)
                      => (op.lt_ab /\ op.lt_bc /\ ~op.lt_ac)

\* C23 happens: three nodes of different capacity with a < b and b < a, and
\* with a < b and b < c but not a < c
C23_Witness ==
    /\ op.name = "compare_chain"
    /\ op.lt_ab
    /\ op.lt_ba
    /\ op.lt_bc
    /\ ~op.lt_ac
    /\ Capacity(node_list[op.a]) # Capacity(node_list[op.b])
    /\ Capacity(node_list[op.b]) # Capacity(node_list[op.c])
    /\ Capacity(node_list[op.a]) # Capacity(node_list[op.c])

\* the only record of the inventory is detected as gpu class and reports no
\* GPU boards
GpuClassWithoutBoards ==
    /\ Len(inventory) = 1
    /\ NamesAccelerator(inventory[1].info.resources_available)
    /\ RawValue(inventory[1].info.resources_available, "accelerator_model")
           # StrVal(text_none)
    /\ \/ ~Reports(inventory[1].info.resources_available, "gpu_boards")
       \/ RawValue(inventory[1].info.resources_available, "ngpus") = IntVal(0)

\* C24: every constructed node with 0 machine GPU boards has the class cpu; a
\* record that is detected as gpu class and has 0 machine GPU boards ends the
\* construction with the assertion error and gives no node.
C24_NoBoardsMeansCpu ==
    /\ Built => \A i \in 1..Len(node_list) :
                    CapacityOf(node_list[i], "gpu_boards") = 0
                        => node_list[i].type = "cpu"
    /\ (op.name = "init" /\ GpuClassWithoutBoards)
           => (op.raised = "AssertionError" /\ node_list = <<>>)

\* C24 happens: a record with an accelerator, cores and memory and 0 boards
\* gave no node
C24_Witness ==
    /\ op.name = "init"
    /\ GpuClassWithoutBoards
    /\ RawValue(inventory[1].info.resources_available, "accelerator_model")
           = StrVal(text_a100)
    /\ Reports(inventory[1].info.resources_available, "gpu_boards")
    /\ Reports(inventory[1].info.resources_available, "cpu_cores")
    /\ Reports(inventory[1].info.resources_available, "memory_gb")
    /\ op.raised = "AssertionError"
    /\ node_list = <<>>

\* the raw record of a node has no Qlist/qlist key in either map
WithoutQlist(info) ==
    /\ \A i \in 1..Len(info.resources_available) :
           info.resources_available[i][1] \notin {"Qlist", "qlist"}
    /\ \A i \in 1..Len(info.resources_assigned) :
           info.resources_assigned[i][1] \notin {"Qlist", "qlist"}

\* C26: every constructed node has a defined queue membership, the empty one
\* when its raw record has no Qlist/qlist key, and neither a listing nor a
\* queue resource summary ends with the error of an unset attribute.
C26_QueueMembershipDefined ==
    /\ Built => \A i \in 1..Len(node_list) :
                    /\ node_list[i].queue_list.defined
                    /\ WithoutQlist(inventory[i].info)
                           => node_list[i].queue_list.value = <<>>
    /\ op.name \in {"print_node_list", "queue_resources"}
           => op.raised # "AttributeError"

\* what the code does with the queue membership: it is defined exactly for
\* the nodes whose raw record has a Qlist/qlist key
QueueMembershipOnlyFromQlist ==
    Built => \A i \in 1..Len(node_list) :
                 node_list[i].queue_list.defined <=> ~WithoutQlist(inventory[i].info)

\* the nodes as the construction of the cluster made them
Constructed == PBSCluster_init(inventory, correct_smt).node_list

\* the output of the report that op records, made on a collection of nodes
OutputOn(nodes) ==
    IF op.name = "print_node_list"
    THEN \E r \in {print_node_list(nodes, op.node_type, op.node_state, op.sort_order,
                                   op.sort_priority, op.top_n)} :
            op.raised = r.raised /\ op.printed = r.printed
    ELSE IF op.name = "repr"
    THEN \E r \in {cluster_repr(nodes)} : op.raised = r.raised /\ op.report = r
    ELSE \E r \in {summarize_queue_resources(nodes, op.node_state, op.rsrc_type)} :
            op.raised = r.raised /\ op.blocks = r.blocks

\* C25: after any sequence of listings, cluster summaries and queue summaries
\* the node collection is the one that the construction made, same members in
\* the same order and every field of every node unchanged, and each report
\* gives the output that it gives on the nodes as constructed.
C25_NodesImmutable ==
    op.name \in {"print_node_list", "repr", "queue_resources"}
        => /\ node_list = Constructed
           /\ OutputOn(Constructed)

\* C25 happens: a queue summary was made after another report on two nodes
\* that are not in the order of their size
C25_Witness ==
    /\ op.name = "queue_resources"
    /\ op.raised = "none"
    /\ ret.earlier
    /\ Len(node_list) = 2
    /\ node_lt(node_list[1], node_list[2])
    /\ node_list = Constructed

\* the positions of the nodes that a state filter selects
Selected(node_state) ==
    {i \in 1..Len(node_list) : state_filter(node_state, node_list[i])}

\* the positions of the nodes of a state
InState(state) == {i \in 1..Len(node_list) : node_list[i].state = state}

\* the state of the nodes that a choice of node_state other than all is about
BucketOf(node_state) ==
    IF node_state = "online" THEN NodeState_online ELSE NodeState_offline

\* every node of a state has a queue membership
AllQueued(state) == \A i \in InState(state) : node_list[i].queue_list.defined

\* C27: the nodes selected by online, those selected by offline and the nodes
\* of state invalid are pairwise disjoint and together are the nodes selected
\* by all; a listing and a queue summary for online or for offline are about
\* the nodes of that state only, and the cluster summary counts the nodes of
\* state online.
C27_FilterByBucket ==
    /\ Built =>
          /\ Selected("online") = InState(NodeState_online)
          /\ Selected("offline") = InState(NodeState_offline)
          /\ Selected("online") \cap Selected("offline") = {}
          /\ Selected("online") \cap InState(NodeState_invalid) = {}
          /\ Selected("offline") \cap InState(NodeState_invalid) = {}
          /\ Selected("online") \cup Selected("offline") \cup InState(NodeState_invalid)
                 = Selected("all")
          /\ Selected("all") = 1..Len(node_list)
    /\ (op.name = "print_node_list" /\ op.node_state \in {"online", "offline"})
          => /\ \A k \in 1..Len(op.printed) :
                   \E i \in InState(BucketOf(op.node_state)) :
                       node_list[i].id = op.printed[k]
             /\ AllQueued(BucketOf(op.node_state)) => op.raised # "AttributeError"
    /\ (op.name = "queue_resources" /\ op.node_state \in {"online", "offline"}
           /\ AllQueued(BucketOf(op.node_state)))
          => /\ op.raised = "none"
             /\ \A b \in 1..Len(op.blocks) :
                   Len(op.blocks[b].values.cpu) =
                       Cardinality({i \in InState(BucketOf(op.node_state)) :
                                       op.blocks[b].qlist \in Members(node_list[i])})
    /\ (op.name = "repr" /\ op.raised = "none")
          => op.report.online_nodes = Cardinality(InState(NodeState_online))

\* C27 happens: an online listing of a cluster with a node of each state printed
\* a node
C27_Witness ==
    /\ op.name = "print_node_list"
    /\ op.node_state = "online"
    /\ op.raised = "none"
    /\ op.printed # <<>>
    /\ InState(NodeState_online) # {}
    /\ InState(NodeState_offline) # {}
    /\ InState(NodeState_invalid) # {}

\* the three samples of a block of the queue summary
Samples(block) == <<block.values.cpu, block.values.mem, block.values.gpu>>

\* C28: in a queue resource summary the samples of cores, memory and GPU
\* boards of every block have one length, which is at least 1, and no
\* statistics of a block are asked of an empty sample: the summary does not
\* end with the error of the empty sample.
C28_SamplesAlignedAndNonEmpty ==
    op.name = "queue_resources"
        => /\ op.raised # "ValueError"
           /\ \A b \in 1..Len(op.blocks) :
                 /\ Len(op.blocks[b].values.cpu) >= 1
                 /\ \A k \in 1..3 :
                       Len(Samples(op.blocks[b])[k]) = Len(op.blocks[b].values.cpu)
                 /\ op.blocks[b].cpu.raised = "none"
                 /\ op.blocks[b].mem.raised = "none"
                 /\ op.blocks[b].gpu.raised = "none"
                 /\ op.blocks[b].nodes = Len(op.blocks[b].values.cpu)

\* C28 happens: a queue summary has a block for one node and a block for
\* more than one
C28_Witness ==
    /\ op.name = "queue_resources"
    /\ op.raised = "none"
    /\ \E b \in 1..Len(op.blocks) : Len(op.blocks[b].values.gpu) = 1
    /\ \E b \in 1..Len(op.blocks) : Len(op.blocks[b].values.gpu) > 1

\* a raw record of class cpu, its accelerator absent or none however written,
\* whose machine cores, memory and boards are all 0 or not reported
AllZeroCpuRecord(info) ==
    /\ NamesAccelerator(info.resources_available)
           => Normalized(RawValue(info.resources_available, "accelerator_model"))
                  = text_none
    /\ Reports(info.resources_available, "cpu_cores")
           => ExpectedCores(info.resources_available) = 0
    /\ Reports(info.resources_available, "gpu_boards")
           => RawValue(info.resources_available, "ngpus") = IntVal(0)
    /\ Reports(info.resources_available, "memory_gb")
           => RawValue(info.resources_available, "mem") = StrVal(mem_text(0, text_gb))

\* C29: the construction of a cluster with a record of class cpu whose machine
\* cores, memory and boards are all 0 or omitted ends with the division by
\* zero of the load estimate and gives no node.
C29_AllZeroRecordDividesByZero ==
    (op.name = "init"
        /\ \E i \in 1..Len(inventory) : AllZeroCpuRecord(inventory[i].info))
        => /\ op.raised = "ZeroDivisionError"
           /\ node_list = <<>>

\* what the construction does when no accelerator value is none written with
\* a blank or a capital letter
AllZeroRecordEndsConstruction ==
    (op.name = "init"
        /\ (\E i \in 1..Len(inventory) : AllZeroCpuRecord(inventory[i].info))
        /\ \A j \in 1..Len(inventory) :
              NamesAccelerator(inventory[j].info.resources_available)
                  => RawValue(inventory[j].info.resources_available, "accelerator_model")
                         # StrVal(text_none_noisy))
        => /\ op.raised = "ZeroDivisionError"
           /\ node_list = <<>>

\* an all-zero record of class cpu ended the construction of a cluster whose
\* first node had been built
AllZeroRecordEndsCluster ==
    /\ op.name = "init"
    /\ op.raised = "ZeroDivisionError"
    /\ Len(inventory) = 2
    /\ inventory[1].info = InfoA
    /\ AllZeroCpuRecord(inventory[2].info)
    /\ node_list = <<>>

=============================================================================
